---------------------------- MODULE Spec2Model ----------------------------
(***************************************************************************)
(* The octonionic delay function and its spot-check proof protocol:        *)
(* stark_vdf.rs (field octonions, run_vdf_grind, the AIR), vdf.rs (the     *)
(* wrapping-ring octonions) and stark.rs (transition_constraint, prove,    *)
(* verify), driven as main.rs drives them.                                 *)
(***************************************************************************)
EXTENDS Integers, Sequences, FiniteSets, TLC

(* ------------------------------ bounds --------------------------------- *)
\* Goldilocks is 2^64 - 2^32 + 1; the model keeps that shape, 2^(2W) - 2^W + 1,
\* with a half-width of W bits instead of 32.
W == 2
\* vdf.rs computes in u64 with wrapping operations; the model's machine word
\* has WordBits bits.
WordBits == 3
\* Largest delay parameter T and largest number of queries lambda explored.
MaxT == 3
MaxLambda == 2
\* Longest list of queried rows in a proof that did not come from prove.
MaxRows == 2
\* run_benchmark makes 1_000_000 iterations, an even number: the model makes
\* 2 * h of them, h in 1..MaxHalf.
MaxHalf == 2
\* Longest chain of block headers a peer mines, the genesis header included.
MaxChain == 3
\* mine_next_block squares the seed 100 times ("small for demo"): the model
\* squares it MineRounds times.
MineRounds == 4
\* horizon.rs has a tree of depth 64, one leaf per u64 index: the model's tree
\* has this depth, and 2^TREE_DEPTH leaves.
TREE_DEPTH == 2


(* ------------------------------- state --------------------------------- *)
VARIABLES
    \* stark_vdf.rs, run_vdf_grind, called twice on the same arguments:
    grind_in,       \* the arguments [seed, c, t]
    history,        \* history[r]: the Vec being filled by call r
    current,        \* current[r]: the local `current` of call r
    iter,           \* iter[r]: iterations of `for _ in 0..t` completed by call r
    gpc,            \* gpc[r]: "loop" | "returned"
    \* main.rs, the evaluate / prove / verify pipeline over stark.rs:
    pc,             \* "start" | "evaluated" | "proved" | "aborted" | "verified"
    trace,          \* the execution trace handed to prove
    pub_inputs,     \* None | Some(PublicInputs)
    proof,          \* None | Some(StarkProof)
    prove_out,      \* None | Some(what the call of prove did)
    verify_out,     \* None | Some(what the call of verify did)
    origin,         \* how trace, pub_inputs and proof came about (history variable)
    \* the octonion operations of vdf.rs and stark_vdf.rs, applied to operands:
    alg_in,         \* the operands [x, y, z], as integer coordinates
    alg_out,        \* None | Some(the operation applied and its results)
    \* vdf.rs, run_benchmark:
    bench_in,       \* [z_0, c, iterations]
    bmain,          \* the main thread: its position ("idle" | "seq" | "join" |
                    \* "second" | "done") and its locals
    bthread,        \* the thread of handle1: its position ("unspawned" |
                    \* "running" | "finished") and its locals
    \* horizon_net.rs, two peers and NetworkBootstrapper::sync:
    node_a,         \* the HorizonPeer that calls sync: [chain, current_horizon]
    node_b,         \* the HorizonPeer whose chain is handed to sync
    net_origin,     \* how node_b.chain came about (history variable)
    sync_out,       \* None | Some(what the call of sync did)
    \* horizon.rs, the accumulator, a validator and a transaction:
    accumulator,    \* the HorizonAccumulator: [nodes, root]
    validator,      \* None | Some(HorizonValidator.state_root)
    wit,            \* None | Some(the Witness a user holds, and when it was made)
    tx_out          \* None | Some(the transaction processed and the result)

vars == <<grind_in, history, current, iter, gpc,
          pc, trace, pub_inputs, proof, prove_out, verify_out, origin,
          alg_in, alg_out, bench_in, bmain, bthread,
          node_a, node_b, net_origin, sync_out,
          accumulator, validator, wit, tx_out>>

grindVars == <<grind_in, history, current, iter, gpc>>
starkVars == <<pc, trace, pub_inputs, proof, prove_out, verify_out, origin>>
algVars   == <<alg_in, alg_out>>
benchVars == <<bench_in, bmain, bthread>>
netVars   == <<node_a, node_b, net_origin, sync_out>>
hzVars    == <<accumulator, validator, wit, tx_out>>

\* Option<T>
None == <<>>
Some(x) == <<x>>

Min(S) == CHOOSE x \in S : \A y \in S : x <= y

(* --------------------------- scalar field ------------------------------ *)
\* p3_goldilocks::Goldilocks, the scalar field of stark_vdf.rs.
P == 2^(2 * W) - 2^W + 1

FAdd(x, y) == (x + y) % P
FSub(x, y) == (x - y) % P
FMul(x, y) == (x * y) % P

\* An octonion is the tuple of its 8 coordinates; Idx0 gives the coordinates
\* under the source's indices 0..7.
Idx0(s) == [i \in 0..7 |-> s[i + 1]]

(* ----------------------- stark_vdf.rs: Octonion<F> --------------------- *)
\* the multiplication table, on coordinates indexed 0..7 as in the source
Octonion_mul_table(a, b) ==
    \* r[0] = a0b0 - a1b1 - a2b2 - a3b3 - a4b4 - a5b5 - a6b6 - a7b7
    << FSub(FSub(FSub(FSub(FSub(FSub(FSub(FMul(a[0], b[0]), FMul(a[1], b[1])), FMul(a[2], b[2])), FMul(a[3], b[3])), FMul(a[4], b[4])), FMul(a[5], b[5])), FMul(a[6], b[6])), FMul(a[7], b[7])),
    \* r[1] = a0b1 + a1b0 + a2b3 - a3b2 + a4b5 - a5b4 - a6b7 + a7b6
       FAdd(FSub(FSub(FAdd(FSub(FAdd(FAdd(FMul(a[0], b[1]), FMul(a[1], b[0])), FMul(a[2], b[3])), FMul(a[3], b[2])), FMul(a[4], b[5])), FMul(a[5], b[4])), FMul(a[6], b[7])), FMul(a[7], b[6])),
    \* r[2] = a0b2 - a1b3 + a2b0 + a3b1 + a4b6 + a5b7 - a6b4 - a7b5
       FSub(FSub(FAdd(FAdd(FAdd(FAdd(FSub(FMul(a[0], b[2]), FMul(a[1], b[3])), FMul(a[2], b[0])), FMul(a[3], b[1])), FMul(a[4], b[6])), FMul(a[5], b[7])), FMul(a[6], b[4])), FMul(a[7], b[5])),
    \* r[3] = a0b3 + a1b2 - a2b1 + a3b0 + a4b7 - a5b6 + a6b5 - a7b4
       FSub(FAdd(FSub(FAdd(FAdd(FSub(FAdd(FMul(a[0], b[3]), FMul(a[1], b[2])), FMul(a[2], b[1])), FMul(a[3], b[0])), FMul(a[4], b[7])), FMul(a[5], b[6])), FMul(a[6], b[5])), FMul(a[7], b[4])),
    \* r[4] = a0b4 - a1b5 - a2b6 - a3b7 + a4b0 + a5b1 + a6b2 + a7b3
       FAdd(FAdd(FAdd(FAdd(FSub(FSub(FSub(FMul(a[0], b[4]), FMul(a[1], b[5])), FMul(a[2], b[6])), FMul(a[3], b[7])), FMul(a[4], b[0])), FMul(a[5], b[1])), FMul(a[6], b[2])), FMul(a[7], b[3])),
    \* r[5] = a0b5 + a1b4 - a2b7 + a3b6 - a4b1 + a5b0 - a6b3 + a7b2
       FAdd(FSub(FAdd(FSub(FAdd(FSub(FAdd(FMul(a[0], b[5]), FMul(a[1], b[4])), FMul(a[2], b[7])), FMul(a[3], b[6])), FMul(a[4], b[1])), FMul(a[5], b[0])), FMul(a[6], b[3])), FMul(a[7], b[2])),
    \* r[6] = a0b6 + a1b7 + a2b4 - a3b5 - a4b2 + a5b3 + a6b0 - a7b1
       FSub(FAdd(FAdd(FSub(FSub(FAdd(FAdd(FMul(a[0], b[6]), FMul(a[1], b[7])), FMul(a[2], b[4])), FMul(a[3], b[5])), FMul(a[4], b[2])), FMul(a[5], b[3])), FMul(a[6], b[0])), FMul(a[7], b[1])),
    \* r[7] = a0b7 - a1b6 + a2b5 + a3b4 - a4b3 - a5b2 + a6b1 + a7b0
       FAdd(FAdd(FSub(FSub(FAdd(FAdd(FSub(FMul(a[0], b[7]), FMul(a[1], b[6])), FMul(a[2], b[5])), FMul(a[3], b[4])), FMul(a[4], b[3])), FMul(a[5], b[2])), FMul(a[6], b[1])), FMul(a[7], b[0]))>>

Octonion_mul(a_, b_) == Octonion_mul_table(Idx0(a_), Idx0(b_))

Octonion_add(a, b) == [i \in 1..8 |-> FAdd(a[i], b[i])]

Octonion_sub(a, b) == [i \in 1..8 |-> FSub(a[i], b[i])]

Octonion_associator(a, b, d) ==
    LET ab_d == Octonion_mul(Octonion_mul(a, b), d)
        a_bd == Octonion_mul(a, Octonion_mul(b, d))
    IN  Octonion_sub(ab_d, a_bd)

\* h_z_vals without the last factor: x^6 in each coordinate.
h_z_vals_sixth(cur) ==
    [i \in 1..8 |->
        LET x  == cur[i]
            x2 == FMul(x, x)
            x4 == FMul(x2, x2)
        IN  FMul(x4, x2)]

\* The closure computing h_z_vals: x^7 in each coordinate.
h_z_vals(cur) ==
    [i \in 1..8 |->
        LET x  == cur[i]
            x2 == FMul(x, x)
            x4 == FMul(x2, x2)
        IN  FMul(FMul(x4, x2), x)]

\* GrindNext as the identity map: the state does not move.
GrindNext_Identity(cur, c) == cur

\* GrindNext without its associator term: Z' = Z^2 + C.
GrindNext_NoAssoc(cur, c) ==
    Octonion_add(Octonion_mul(cur, cur), c)

\* GrindNext with a counter shared by all calls mixed into the new state.
GrindNext_Shared(cur, c) ==
    LET h_z   == h_z_vals(cur)
        z_sq  == Octonion_mul(cur, cur)
        assoc == Octonion_associator(cur, c, h_z)
        calls == [i \in 1..8 |-> (iter[1] + iter[2]) % P]
    IN  Octonion_add(Octonion_add(Octonion_add(z_sq, c), assoc), calls)

\* One iteration of run_vdf_grind's loop, after the push: the next `current`.
GrindNext(cur, c) ==
    LET h_z   == h_z_vals(cur)
        z_sq  == Octonion_mul(cur, cur)
        assoc == Octonion_associator(cur, c, h_z)
    IN  Octonion_add(Octonion_add(z_sq, c), assoc)

\* OctoStarkAir::eval, the transition part: expected_next from the local row.
AirExpectedNext(local, c) ==
    LET h_z   == [i \in 1..8 |->
                     LET x  == local[i]
                         x2 == FMul(x, x)
                         x4 == FMul(x2, x2)
                     IN  FMul(FMul(x4, x2), x)]
        z_sq  == Octonion_mul(local, local)
        assoc == Octonion_associator(local, c, h_z)
    IN  Octonion_add(Octonion_add(z_sq, c), assoc)

\* builder.when_transition().assert_eq(next[i], expected_next.0[i]) for all i.
AirTransitionHolds(local, next_, c) ==
    LET expected_next == AirExpectedNext(local, c)
    IN  \A i \in 1..8 : next_[i] = expected_next[i]

(* ------------------- vdf.rs: Octonion over wrapping u64 ---------------- *)
Word == 2^WordBits

\* wrapping_add that saturates at the largest word instead of wrapping.
saturating_add(x, y) == IF x + y >= Word THEN Word - 1 ELSE x + y

wrapping_add(x, y) == (x + y) % Word
wrapping_sub(x, y) == (x - y) % Word
wrapping_mul(x, y) == (x * y) % Word

zero == [i \in 1..8 |-> 0]

is_zero(self) == \A i \in 1..8 : self[i] = 0

Add(self, other) == [i \in 1..8 |-> wrapping_add(self[i], other[i])]

\* the multiplication table, on coordinates indexed 0..7 as in the source
Mul_table(a, b) ==
    \* res[0] = a0b0 - a1b1 - a2b2 - a3b3 - a4b4 - a5b5 - a6b6 - a7b7
    << wrapping_sub(wrapping_sub(wrapping_sub(wrapping_sub(wrapping_sub(wrapping_sub(wrapping_sub(wrapping_mul(a[0], b[0]), wrapping_mul(a[1], b[1])), wrapping_mul(a[2], b[2])), wrapping_mul(a[3], b[3])), wrapping_mul(a[4], b[4])), wrapping_mul(a[5], b[5])), wrapping_mul(a[6], b[6])), wrapping_mul(a[7], b[7])),
    \* res[1] = a0b1 + a1b0 + a2b3 - a3b2 + a4b5 - a5b4 - a6b7 + a7b6
       wrapping_add(wrapping_sub(wrapping_sub(wrapping_add(wrapping_sub(wrapping_add(wrapping_add(wrapping_mul(a[0], b[1]), wrapping_mul(a[1], b[0])), wrapping_mul(a[2], b[3])), wrapping_mul(a[3], b[2])), wrapping_mul(a[4], b[5])), wrapping_mul(a[5], b[4])), wrapping_mul(a[6], b[7])), wrapping_mul(a[7], b[6])),
    \* res[2] = a0b2 - a1b3 + a2b0 + a3b1 + a4b6 + a5b7 - a6b4 - a7b5
       wrapping_sub(wrapping_sub(wrapping_add(wrapping_add(wrapping_add(wrapping_add(wrapping_sub(wrapping_mul(a[0], b[2]), wrapping_mul(a[1], b[3])), wrapping_mul(a[2], b[0])), wrapping_mul(a[3], b[1])), wrapping_mul(a[4], b[6])), wrapping_mul(a[5], b[7])), wrapping_mul(a[6], b[4])), wrapping_mul(a[7], b[5])),
    \* res[3] = a0b3 + a1b2 - a2b1 + a3b0 + a4b7 - a5b6 + a6b5 - a7b4
       wrapping_sub(wrapping_add(wrapping_sub(wrapping_add(wrapping_add(wrapping_sub(wrapping_add(wrapping_mul(a[0], b[3]), wrapping_mul(a[1], b[2])), wrapping_mul(a[2], b[1])), wrapping_mul(a[3], b[0])), wrapping_mul(a[4], b[7])), wrapping_mul(a[5], b[6])), wrapping_mul(a[6], b[5])), wrapping_mul(a[7], b[4])),
    \* res[4] = a0b4 - a1b5 - a2b6 - a3b7 + a4b0 + a5b1 + a6b2 + a7b3
       wrapping_add(wrapping_add(wrapping_add(wrapping_add(wrapping_sub(wrapping_sub(wrapping_sub(wrapping_mul(a[0], b[4]), wrapping_mul(a[1], b[5])), wrapping_mul(a[2], b[6])), wrapping_mul(a[3], b[7])), wrapping_mul(a[4], b[0])), wrapping_mul(a[5], b[1])), wrapping_mul(a[6], b[2])), wrapping_mul(a[7], b[3])),
    \* res[5] = a0b5 + a1b4 - a2b7 + a3b6 - a4b1 + a5b0 - a6b3 + a7b2
       wrapping_add(wrapping_sub(wrapping_add(wrapping_sub(wrapping_add(wrapping_sub(wrapping_add(wrapping_mul(a[0], b[5]), wrapping_mul(a[1], b[4])), wrapping_mul(a[2], b[7])), wrapping_mul(a[3], b[6])), wrapping_mul(a[4], b[1])), wrapping_mul(a[5], b[0])), wrapping_mul(a[6], b[3])), wrapping_mul(a[7], b[2])),
    \* res[6] = a0b6 + a1b7 + a2b4 - a3b5 - a4b2 + a5b3 + a6b0 - a7b1
       wrapping_sub(wrapping_add(wrapping_add(wrapping_sub(wrapping_sub(wrapping_add(wrapping_add(wrapping_mul(a[0], b[6]), wrapping_mul(a[1], b[7])), wrapping_mul(a[2], b[4])), wrapping_mul(a[3], b[5])), wrapping_mul(a[4], b[2])), wrapping_mul(a[5], b[3])), wrapping_mul(a[6], b[0])), wrapping_mul(a[7], b[1])),
    \* res[7] = a0b7 - a1b6 + a2b5 + a3b4 - a4b3 - a5b2 + a6b1 + a7b0
       wrapping_add(wrapping_add(wrapping_sub(wrapping_sub(wrapping_add(wrapping_add(wrapping_sub(wrapping_mul(a[0], b[7]), wrapping_mul(a[1], b[6])), wrapping_mul(a[2], b[5])), wrapping_mul(a[3], b[4])), wrapping_mul(a[4], b[3])), wrapping_mul(a[5], b[2])), wrapping_mul(a[6], b[1])), wrapping_mul(a[7], b[0]))>>

\* Mul with its operands exchanged: it computes other * self.
Mul_swapped(self, other) == Mul_table(Idx0(other), Idx0(self))

\* Mul as the coordinate-wise product: commutative and associative.
Mul_hadamard(self, other) == [i \in 1..8 |-> wrapping_mul(self[i], other[i])]

Mul(self, other) == Mul_table(Idx0(self), Idx0(other))

\* associator without the subtraction of x(yz).
associator_left(x, y, z) == Mul(Mul(x, y), z)

associator(x, y, z) ==
    LET xy_z == Mul(Mul(x, y), z)
        x_yz == Mul(x, Mul(y, z))
    IN  [i \in 1..8 |-> wrapping_sub(xy_z[i], x_yz[i])]

(* ------- parts of the vdf module that stark.rs and main.rs use --------- *)
(* ------- and src/ does not hold: modelled from the specification ------- *)
\* `impl Sub for Octonion` (stark.rs:59): coordinate-wise subtraction.
Sub(self, other) == [i \in 1..8 |-> wrapping_sub(self[i], other[i])]

\* The per-index multiplier the round constants k_i are derived from.
RoundMultiplier == 5
\* k_i, for the coordinate at position i of the tuple
RoundConstant(i) == wrapping_mul(i, RoundMultiplier)

Pow7(x) ==
    LET x2 == wrapping_mul(x, x)
        x4 == wrapping_mul(x2, x2)
    IN  wrapping_mul(wrapping_mul(x4, x2), x)

RECURSIVE SumTo(_, _)
SumTo(y, n) == IF n < 1 THEN 0 ELSE wrapping_add(SumTo(y, n - 1), y[n])

\* AlgebraicHashOracle: y_i = x_i^7; s = sum of the y_i; out_i = y_i + s + k_i.
algebraic_hash_oracle(x) ==
    LET y == [i \in 1..8 |-> Pow7(x[i])]
        s == SumTo(y, 8)
    IN  [i \in 1..8 |-> wrapping_add(wrapping_add(y[i], s), RoundConstant(i))]

\* The evaluator's one-step recurrence Z' = Z^2 + C + associator(Z, C, H(Z)).
vdf_step(z, c) ==
    Add(Add(Mul(z, z), c), associator(z, c, algebraic_hash_oracle(z)))

\* evaluate_vdf(z_0, c, iterations): T steps, all T+1 states kept.
RECURSIVE vdf_trace(_, _, _)
vdf_trace(z_0, c, n) ==
    IF n = 0 THEN <<z_0>>
    ELSE LET before == vdf_trace(z_0, c, n - 1)
         IN  Append(before, vdf_step(before[Len(before)], c))

evaluate_vdf(z_0, c, iterations) ==
    LET tr == vdf_trace(z_0, c, iterations)
    IN  [final_state |-> tr[Len(tr)], trace |-> tr]

(* ----------------------------- u64 for prng ---------------------------- *)
\* A u64 as its 8 bytes, least significant first: the query sampler's
\* arithmetic is done at full width.
U64Bytes == 8
Byte == 256

RECURSIVE U64Carry(_, _, _, _)
U64Carry(cols, k, carry, acc) ==
    IF k > U64Bytes THEN acc
    ELSE LET v == cols[k] + carry
         IN  U64Carry(cols, k + 1, v \div Byte, Append(acc, v % Byte))

RECURSIVE U64Column(_, _, _, _)
\* sum of x[i] * y[j] over the byte positions with i + j = k + 1, i <= n
U64Column(x, y, k, n) ==
    IF n = 0 THEN 0
    ELSE x[n] * y[k + 1 - n] + U64Column(x, y, k, n - 1)

u64_wrapping_mul(x, y) ==
    U64Carry([k \in 1..U64Bytes |-> U64Column(x, y, k, k)], 1, 0, <<>>)

u64_wrapping_add(x, y) ==
    U64Carry([k \in 1..U64Bytes |-> x[k] + y[k]], 1, 0, <<>>)

RECURSIVE U64Rem(_, _, _, _)
\* (prng as usize) % t for 0 < t, usize being 64 bits wide: Horner's rule
\* from the most significant byte down
U64Rem(x, t, k, r) ==
    IF k = 0 THEN r ELSE U64Rem(x, t, k - 1, (r * Byte + x[k]) % t)

\* 0x1337_CAFE_BEEF_DEAD_u64
PrngSeed == <<173, 222, 239, 190, 254, 202, 55, 19>>
\* 6364136223846793005
PrngMultiplier == <<45, 127, 149, 76, 45, 244, 81, 88>>
U64One == <<1, 0, 0, 0, 0, 0, 0, 0>>

PrngNext(prng) == u64_wrapping_add(u64_wrapping_mul(prng, PrngMultiplier), U64One)

(* ------------------------------ stark.rs ------------------------------- *)
\* [b; n]: an array of n copies of the byte b
Filled(b, n) == [byte |-> b, len |-> n]

\* transition_constraint that adds z_next and the expected state.
transition_constraint_sum(z_current, z_next, c) ==
    LET sq            == Mul(z_current, z_current)
        dynamic_gen   == algebraic_hash_oracle(z_current)
        assoc         == associator(z_current, c, dynamic_gen)
        expected_next == Add(Add(sq, c), assoc)
    IN  Add(z_next, expected_next)

transition_constraint(z_current, z_next, c) ==
    LET sq            == Mul(z_current, z_current)
        dynamic_gen   == algebraic_hash_oracle(z_current)
        assoc         == associator(z_current, c, dynamic_gen)
        expected_next == Add(Add(sq, c), assoc)
    IN  Sub(z_next, expected_next)

\* What a call did: it returned (`ret`) or it panicked (`panic`); `checked`
\* counts the evaluations of the transition constraint it made and `sampled`
\* the queries it pushed.
Returned(v, checked, sampled) ==
    [ret |-> Some(v), panic |-> None, checked |-> checked, sampled |-> sampled]
Panicked(msg, arg, checked, sampled) ==
    [ret |-> None, panic |-> Some([msg |-> msg, arg |-> arg]),
     checked |-> checked, sampled |-> sampled]

RECURSIVE prove_check_short(_, _, _, _)
\* prove_check with the loop `for i in 0..t - 1`: the last step is not checked.
prove_check_short(trace_, c, t, i) ==
    IF i >= t - 1 THEN None
    ELSE LET constraint ==
                 transition_constraint(trace_[i + 1], trace_[i + 2], c)
         IN  IF ~is_zero(constraint) THEN Some(i)
             ELSE prove_check_short(trace_, c, t, i + 1)

RECURSIVE prove_check(_, _, _, _)
\* the loop `for i in 0..t` of prove: None, or Some(i) for the first i whose
\* assertion fails
prove_check(trace_, c, t, i) ==
    IF i >= t THEN None
    ELSE LET constraint ==
                 transition_constraint(trace_[i + 1], trace_[i + 2], c)
         IN  IF ~is_zero(constraint) THEN Some(i)
             ELSE prove_check(trace_, c, t, i + 1)

RECURSIVE prove_sample_transcript(_, _, _, _, _)
\* prove_sample that mixes a coordinate of the trace's second row into each
\* index, as a transcript of the committed rows would.
prove_sample_transcript(trace_, t, n, prng, queried_rows) ==
    IF n = 0 THEN queried_rows
    ELSE LET prng1 == PrngNext(prng)
             step  == (U64Rem(prng1, t, U64Bytes, 0) + trace_[2][2]) % t
         IN  prove_sample_transcript(trace_, t, n - 1, prng1,
                 Append(queried_rows,
                     [step |-> step,
                      z_current |-> trace_[step + 1],
                      z_next |-> trace_[step + 2],
                      merkle_auth_path |-> [k \in 1..5 |-> Filled(204, 32)]]))

RECURSIVE prove_sample_stale(_, _, _, _, _)
\* prove_sample whose z_next is read at `step`, not at `step + 1`.
prove_sample_stale(trace_, t, n, prng, queried_rows) ==
    IF n = 0 THEN queried_rows
    ELSE LET prng1 == PrngNext(prng)
             step  == U64Rem(prng1, t, U64Bytes, 0)
         IN  prove_sample_stale(trace_, t, n - 1, prng1,
                 Append(queried_rows,
                     [step |-> step,
                      z_current |-> trace_[step + 1],
                      z_next |-> trace_[step + 1],
                      merkle_auth_path |-> [k \in 1..5 |-> Filled(204, 32)]]))

RECURSIVE prove_sample(_, _, _, _, _)
\* the loop `for _ in 0..security_level_queries` of prove, t > 0
prove_sample(trace_, t, n, prng, queried_rows) ==
    IF n = 0 THEN queried_rows
    ELSE LET prng1 == PrngNext(prng)
             step  == U64Rem(prng1, t, U64Bytes, 0)
         IN  prove_sample(trace_, t, n - 1, prng1,
                 Append(queried_rows,
                     [step |-> step,
                      z_current |-> trace_[step + 1],
                      z_next |-> trace_[step + 2],
                      merkle_auth_path |-> [k \in 1..5 |-> Filled(204, 32)]]))

\* prove whose length check lets a trace with rows to spare through.
prove_min_length(trace_, pub, security_level_queries) ==
    LET t == pub.t_iterations
    IN  IF Len(trace_) < t + 1
        THEN Panicked("Trace length must match T + 1", Len(trace_), 0, 0)
        ELSE LET failed == prove_check(trace_, pub.c, t, 0)
             IN  IF failed # None
                 THEN Panicked("Trace invalid at step", failed[1], failed[1] + 1, 0)
                 ELSE IF security_level_queries > 0 /\ t = 0
                 THEN Panicked("attempt to calculate the remainder with a divisor of zero",
                               0, t, 0)
                 ELSE Returned(
                          [trace_merkle_root |-> Filled(170, 32),
                           queried_rows |->
                               prove_sample(trace_, t, security_level_queries,
                                            PrngSeed, <<>>),
                           fri_proof_valid |-> TRUE],
                          t, security_level_queries)

\* prove without its sanity check of the trace.
prove_unchecked(trace_, pub, security_level_queries) ==
    LET t == pub.t_iterations
    IN  IF Len(trace_) # t + 1
        THEN Panicked("Trace length must match T + 1", Len(trace_), 0, 0)
        ELSE IF security_level_queries > 0 /\ t = 0
        THEN Panicked("attempt to calculate the remainder with a divisor of zero",
                      0, 0, 0)
        ELSE Returned(
                 [trace_merkle_root |-> Filled(170, 32),
                  queried_rows |->
                      prove_sample(trace_, t, security_level_queries, PrngSeed, <<>>),
                  fri_proof_valid |-> TRUE],
                 0, security_level_queries)

prove(trace_, pub, security_level_queries) ==
    LET t == pub.t_iterations
    IN  IF Len(trace_) # t + 1
        THEN Panicked("Trace length must match T + 1", Len(trace_), 0, 0)
        ELSE LET failed == prove_check(trace_, pub.c, t, 0)
             IN  IF failed # None
                 THEN Panicked("Trace invalid at step", failed[1], failed[1] + 1, 0)
                 ELSE IF security_level_queries > 0 /\ t = 0
                 THEN Panicked("attempt to calculate the remainder with a divisor of zero",
                               0, t, 0)
                 ELSE Returned(
                          [trace_merkle_root |-> Filled(170, 32),
                           queried_rows |->
                               prove_sample(trace_, t, security_level_queries,
                                            PrngSeed, <<>>),
                           fri_proof_valid |-> TRUE],
                          t, security_level_queries)

RECURSIVE verify_queries_last(_, _, _)
\* verify_queries in which a failing query rejects only if it is the last one.
verify_queries_last(queried_rows, c, k) ==
    IF k > Len(queried_rows) THEN [rejected |-> FALSE, checked |-> k - 1, log |-> None]
    ELSE LET query == queried_rows[k]
             constraint_res ==
                 transition_constraint(query.z_current, query.z_next, c)
         IN  IF ~is_zero(constraint_res) /\ k = Len(queried_rows)
             THEN [rejected |-> TRUE, checked |-> k,
                   log |-> Some([msg |-> "AIR Transition Constraint violated at step",
                                 arg |-> query.step])]
             ELSE verify_queries_last(queried_rows, c, k + 1)

RECURSIVE verify_queries(_, _, _)
\* the loop `for query in &proof.queried_rows` of verify, from the k-th query
verify_queries(queried_rows, c, k) ==
    IF k > Len(queried_rows) THEN [rejected |-> FALSE, checked |-> k - 1, log |-> None]
    ELSE LET query == queried_rows[k]
             constraint_res ==
                 transition_constraint(query.z_current, query.z_next, c)
         IN  IF ~is_zero(constraint_res)
             THEN [rejected |-> TRUE, checked |-> k,
                   log |-> Some([msg |-> "AIR Transition Constraint violated at step",
                                 arg |-> query.step])]
             ELSE verify_queries(queried_rows, c, k + 1)

\* verify that walks the T steps from z_0 for its boundary check.
verify_walks_T(proof_, pub) ==
    LET walked == vdf_trace(pub.z_0, pub.c, pub.t_iterations)
        valid_boundaries == walked[Len(walked)] = pub.z_t
    IN  IF ~valid_boundaries
        THEN [ret |-> FALSE, panic |-> None, checked |-> pub.t_iterations,
              log |-> Some([msg |-> "Boundary constraint failure.", arg |-> 0])]
        ELSE LET loop == verify_queries(proof_.queried_rows, pub.c, 1)
             IN  IF loop.rejected
                 THEN [ret |-> FALSE, panic |-> None, checked |-> pub.t_iterations + loop.checked,
                       log |-> loop.log]
                 ELSE IF ~proof_.fri_proof_valid
                 THEN [ret |-> FALSE, panic |-> None, checked |-> pub.t_iterations + loop.checked,
                       log |-> Some([msg |-> "FRI Proximity Proof failed.", arg |-> 0])]
                 ELSE [ret |-> TRUE, panic |-> None, checked |-> pub.t_iterations + loop.checked,
                       log |-> None]

\* verify that bounds-checks each query's step against T, as an index.
verify_indexed(proof_, pub) ==
    LET loop == verify_queries(proof_.queried_rows, pub.c, 1)
    IN  IF \E k \in 1..Len(proof_.queried_rows) :
               proof_.queried_rows[k].step >= pub.t_iterations
        THEN [ret |-> FALSE, panic |-> Some("index out of bounds"),
              checked |-> 0, log |-> None]
        ELSE IF loop.rejected
        THEN [ret |-> FALSE, panic |-> None, checked |-> loop.checked, log |-> loop.log]
        ELSE IF ~proof_.fri_proof_valid
        THEN [ret |-> FALSE, panic |-> None, checked |-> loop.checked,
              log |-> Some([msg |-> "FRI Proximity Proof failed.", arg |-> 0])]
        ELSE [ret |-> TRUE, panic |-> None, checked |-> loop.checked, log |-> None]

\* verify that also compares the commitment root with the prover's constant.
verify_rooted(proof_, pub) ==
    LET loop == verify_queries(proof_.queried_rows, pub.c, 1)
    IN  IF proof_.trace_merkle_root # Filled(170, 32)
        THEN [ret |-> FALSE, panic |-> None, checked |-> 0,
              log |-> Some([msg |-> "Boundary constraint failure.", arg |-> 0])]
        ELSE IF loop.rejected
        THEN [ret |-> FALSE, panic |-> None, checked |-> loop.checked, log |-> loop.log]
        ELSE IF ~proof_.fri_proof_valid
        THEN [ret |-> FALSE, panic |-> None, checked |-> loop.checked,
              log |-> Some([msg |-> "FRI Proximity Proof failed.", arg |-> 0])]
        ELSE [ret |-> TRUE, panic |-> None, checked |-> loop.checked, log |-> None]

\* verify without step 3, the check of the low-degree flag.
verify_no_fri(proof_, pub) ==
    LET loop == verify_queries(proof_.queried_rows, pub.c, 1)
    IN  IF loop.rejected
        THEN [ret |-> FALSE, panic |-> None, checked |-> loop.checked, log |-> loop.log]
        ELSE [ret |-> TRUE, panic |-> None, checked |-> loop.checked, log |-> None]

verify(proof_, pub) ==
    LET valid_boundaries == TRUE
    IN  IF ~valid_boundaries
        THEN [ret |-> FALSE, panic |-> None, checked |-> 0,
              log |-> Some([msg |-> "Boundary constraint failure.", arg |-> 0])]
        ELSE LET loop == verify_queries(proof_.queried_rows, pub.c, 1)
             IN  IF loop.rejected
                 THEN [ret |-> FALSE, panic |-> None, checked |-> loop.checked, log |-> loop.log]
                 ELSE IF ~proof_.fri_proof_valid
                 THEN [ret |-> FALSE, panic |-> None, checked |-> loop.checked,
                       log |-> Some([msg |-> "FRI Proximity Proof failed.", arg |-> 0])]
                 ELSE [ret |-> TRUE, panic |-> None, checked |-> loop.checked, log |-> None]

(* ------------------------------ inputs --------------------------------- *)
\* Field octonions fed to run_vdf_grind: the test's seed [1; 8] and c [42; 8]
\* (stark_vdf.rs:281-282), test_e2e_proof's seed [7; 8] and c [1337; 8]
\* (stark_vdf.rs:208-209), and two with unequal coordinates.
FOct(s) == [i \in 1..8 |-> s[i] % P]
GrindSeeds == {FOct(<<1, 1, 1, 1, 1, 1, 1, 1>>), FOct(<<7, 7, 7, 7, 7, 7, 7, 7>>),
               FOct(<<1, 2, 0, 3, 1, 0, 2, 5>>)}
GrindCs    == {FOct(<<42, 42, 42, 42, 42, 42, 42, 42>>),
               FOct(<<1337, 1337, 1337, 1337, 1337, 1337, 1337, 1337>>),
               FOct(<<2, 0, 1, 1, 3, 0, 0, 1>>)}

\* Ring octonions fed to the pipeline, and the values an adversary writes.
ROct(s) == [i \in 1..8 |-> s[i] % Word]
Seeds      == {ROct(<<1, 1, 1, 1, 1, 1, 1, 1>>), ROct(<<1, 2, 0, 3, 1, 0, 2, 5>>)}
Cs         == {ROct(<<42, 42, 42, 42, 42, 42, 42, 42>>), ROct(<<2, 0, 1, 1, 3, 0, 0, 1>>)}
OctSamples == {zero, ROct(<<1, 2, 0, 3, 1, 0, 2, 5>>), ROct(<<0, 1, 1, 0, 2, 0, 1, 3>>)}

Runs == {1, 2}

(* --------------------- run_vdf_grind, step by step --------------------- *)
GrindInit ==
    /\ grind_in \in [seed : GrindSeeds, c : GrindCs, t : 0..MaxT]
    /\ history = [r \in Runs |-> <<>>]
    /\ current = [r \in Runs |-> grind_in.seed]
    /\ iter = [r \in Runs |-> 0]
    /\ gpc = [r \in Runs |-> "loop"]

\* GrindIter whose loop counter advances by two per iteration.
GrindIter_CountsTwo(r) ==
    /\ gpc[r] = "loop"
    /\ iter[r] < grind_in.t
    /\ history' = [history EXCEPT ![r] = Append(@, current[r])]
    /\ current' = [current EXCEPT ![r] = GrindNext(@, grind_in.c)]
    /\ iter' = [iter EXCEPT ![r] = @ + 2]
    /\ UNCHANGED <<grind_in, gpc, starkVars, algVars, benchVars, netVars, hzVars>>

\* one iteration of `for _ in 0..t`: push, then step
GrindIter(r) ==
    /\ gpc[r] = "loop"
    /\ iter[r] < grind_in.t
    /\ history' = [history EXCEPT ![r] = Append(@, current[r])]
    /\ current' = [current EXCEPT ![r] = GrindNext(@, grind_in.c)]
    /\ iter' = [iter EXCEPT ![r] = @ + 1]
    /\ UNCHANGED <<grind_in, gpc, starkVars, algVars, benchVars, netVars, hzVars>>

\* GrindReturn without the final push.
GrindReturn_NoPush(r) ==
    /\ gpc[r] = "loop"
    /\ iter[r] = grind_in.t
    /\ gpc' = [gpc EXCEPT ![r] = "returned"]
    /\ UNCHANGED <<grind_in, history, current, iter, starkVars, algVars, benchVars, netVars, hzVars>>

\* the loop is over: the final push and the return
GrindReturn(r) ==
    /\ gpc[r] = "loop"
    /\ iter[r] = grind_in.t
    /\ history' = [history EXCEPT ![r] = Append(@, current[r])]
    /\ gpc' = [gpc EXCEPT ![r] = "returned"]
    /\ UNCHANGED <<grind_in, current, iter, starkVars, algVars, benchVars, netVars, hzVars>>

(* ------------------ main.rs: evaluate, prove, verify ------------------- *)
NoOrigin == [row |-> None, pub |-> None, forged |-> FALSE, queries |-> None,
             resized |-> FALSE]

StarkInit ==
    /\ pc = "start"
    /\ trace = <<>>
    /\ pub_inputs = None
    /\ proof = None
    /\ prove_out = None
    /\ verify_out = None
    /\ origin = NoOrigin

\* the grind is not running: its variables stay as parked here
GrindParked ==
    /\ grind_in = [seed |-> FOct(<<1, 1, 1, 1, 1, 1, 1, 1>>),
                   c |-> FOct(<<42, 42, 42, 42, 42, 42, 42, 42>>), t |-> 0]
    /\ history = [r \in Runs |-> <<>>]
    /\ current = [r \in Runs |-> grind_in.seed]
    /\ iter = [r \in Runs |-> 0]
    /\ gpc = [r \in Runs |-> "returned"]

\* main.rs:33-44, after stark_vdf::test_e2e_proof() (main.rs:16) has returned
Evaluate ==
    /\ pc = "start"
    /\ \A r \in Runs : gpc[r] = "returned"
    /\ \E z_0 \in Seeds, c \in Cs, iterations \in 0..MaxT :
           LET stark_output == evaluate_vdf(z_0, c, iterations)
           IN  /\ trace' = stark_output.trace
               /\ pub_inputs' = Some([z_0 |-> z_0, c |-> c,
                                      z_t |-> stark_output.final_state,
                                      t_iterations |-> iterations])
    /\ pc' = "evaluated"
    /\ UNCHANGED <<proof, prove_out, verify_out, origin, grindVars, algVars, benchVars, netVars, hzVars>>

\* one row of the trace is overwritten before it reaches prove
CorruptRow ==
    /\ pc = "evaluated"
    /\ origin.row = None
    /\ ~origin.resized
    /\ \E i \in 0..(Len(trace) - 1), v \in OctSamples :
           /\ v # trace[i + 1]
           /\ trace' = [trace EXCEPT ![i + 1] = v]
           /\ origin' = [origin EXCEPT !.row = Some(i)]
    /\ UNCHANGED <<pc, pub_inputs, proof, prove_out, verify_out, grindVars, algVars, benchVars, netVars, hzVars>>

\* the trace reaches prove one row short, or with one row too many
ResizeTrace ==
    /\ pc = "evaluated"
    /\ origin.row = None
    /\ ~origin.resized
    /\ \/ Len(trace) >= 1 /\ trace' = SubSeq(trace, 1, Len(trace) - 1)
       \/ \E v \in OctSamples \cup {vdf_step(trace[Len(trace)], pub_inputs[1].c)} :
              trace' = Append(trace, v)
    /\ origin' = [origin EXCEPT !.resized = TRUE]
    /\ UNCHANGED <<pc, pub_inputs, proof, prove_out, verify_out, grindVars, algVars, benchVars, netVars, hzVars>>

\* main.rs:52
Prove ==
    /\ pc = "evaluated"
    /\ \E security_queries \in 0..MaxLambda :
           LET out == prove(trace, pub_inputs[1], security_queries)
           IN  /\ prove_out' = Some(out)
               /\ proof' = out.ret
               /\ pc' = IF out.panic = None THEN "proved" ELSE "aborted"
               /\ origin' = [origin EXCEPT !.queries = Some(security_queries)]
    /\ UNCHANGED <<trace, pub_inputs, verify_out, grindVars, algVars, benchVars, netVars, hzVars>>

\* The rows of a proof that prove did not make: a step that is 0 or is past
\* the trace, and a next state that is the recurrence's or is not.
ForgedQueries(pub) ==
    { [step |-> s, z_current |-> pub.z_0, z_next |-> zn,
       merkle_auth_path |-> [k \in 1..5 |-> Filled(204, 32)]] :
        s \in {0, pub.t_iterations + 1},
        zn \in {vdf_step(pub.z_0, pub.c), pub.z_0} }

SeqsUpTo(S, n) == UNION {[1..k -> S] : k \in 0..n}

\* a proof is handed to the verifier that prove did not make
Forge ==
    /\ pc = "evaluated"
    /\ origin.row = None
    /\ ~origin.resized
    /\ \E rows \in SeqsUpTo(ForgedQueries(pub_inputs[1]), MaxRows), fri \in BOOLEAN :
           proof' = Some([trace_merkle_root |-> Filled(170, 32),
                          queried_rows |-> rows,
                          fri_proof_valid |-> fri])
    /\ pc' = "proved"
    /\ origin' = [origin EXCEPT !.forged = TRUE]
    /\ UNCHANGED <<trace, pub_inputs, prove_out, verify_out, grindVars, algVars, benchVars, netVars, hzVars>>

\* the verifier is given public inputs whose z_0 or z_t is not the prover's
TamperPublic ==
    /\ pc = "proved"
    /\ origin.pub = None
    /\ ~origin.forged
    /\ \E f \in {"z_0", "z_t"}, v \in OctSamples :
           /\ v # pub_inputs[1][f]
           /\ pub_inputs' = Some([pub_inputs[1] EXCEPT ![f] = v])
           /\ origin' = [origin EXCEPT !.pub = Some(f)]
    /\ UNCHANGED <<pc, trace, proof, prove_out, verify_out, grindVars, algVars, benchVars, netVars, hzVars>>

\* main.rs:64
Verify ==
    /\ pc = "proved"
    /\ verify_out' = Some(verify(proof[1], pub_inputs[1]))
    /\ pc' = "verified"
    /\ UNCHANGED <<trace, pub_inputs, proof, prove_out, origin, grindVars, algVars, benchVars, netVars, hzVars>>

(* ------------- the octonion operations, applied to operands ------------ *)
\* The unit e_i, i in 0..7, as integer coordinates.
Basis(i) == [k \in 1..8 |-> IF k = i + 1 THEN 1 ELSE 0]

\* Operands: the eight units and octonions with several non-zero
\* coordinates, [7; 8] of test_e2e_proof (stark_vdf.rs:206) among them. The
\* same integer coordinates are taken into both scalar rings.
AlgOperands ==
    {Basis(i) : i \in 0..7} \cup
    {<<1, 2, 0, 3, 1, 0, 2, 5>>, <<3, 1, 4, 1, 5, 9, 2, 6>>,
     <<7, 7, 7, 7, 7, 7, 7, 7>>, <<0, 1, 1, 0, 2, 0, 1, 3>>}
AlgThirds == {Basis(3), Basis(4), <<2, 7, 1, 8, 2, 8, 1, 8>>}

\* The argument lists an associator is applied to, built from x, y and z.
AssociatorForms == {"x,x,y", "x,y,y", "x,y,x", "x,y,xy", "x,y,z"}

AlgInit ==
    /\ alg_in \in [x : AlgOperands, y : AlgOperands, z : AlgThirds]
    /\ alg_out = None

\* the operations are not being exercised: their variables stay as parked here
AlgParked ==
    /\ alg_in = [x |-> Basis(0), y |-> Basis(0), z |-> Basis(0)]
    /\ alg_out = None

\* x + y, by vdf.rs (`wrap`) and by stark_vdf.rs (`field`)
AlgAdd ==
    /\ alg_out = None
    /\ alg_out' = Some([op |-> "add", form |-> "x,y",
                        wrap |-> Add(ROct(alg_in.x), ROct(alg_in.y)),
                        field |-> Octonion_add(FOct(alg_in.x), FOct(alg_in.y))])
    /\ UNCHANGED <<alg_in, grindVars, starkVars, benchVars, netVars, hzVars>>

\* x * y, by vdf.rs (`wrap`) and by stark_vdf.rs (`field`)
AlgMul ==
    /\ alg_out = None
    /\ alg_out' = Some([op |-> "mul", form |-> "x,y",
                        wrap |-> Mul(ROct(alg_in.x), ROct(alg_in.y)),
                        field |-> Octonion_mul(FOct(alg_in.x), FOct(alg_in.y))])
    /\ UNCHANGED <<alg_in, grindVars, starkVars, benchVars, netVars, hzVars>>

\* the arguments of the associator under a form, xy being the product x * y
\* by the module's multiplication
AssociatorArgs(form, x, y, z, xy) ==
    CASE form = "x,x,y"  -> <<x, x, y>>
      [] form = "x,y,y"  -> <<x, y, y>>
      [] form = "x,y,x"  -> <<x, y, x>>
      [] form = "x,y,xy" -> <<x, y, xy>>
      [] form = "x,y,z"  -> <<x, y, z>>

\* associator(...) of vdf.rs and Octonion::associator of stark_vdf.rs
AlgAssociator ==
    /\ alg_out = None
    /\ \E form \in AssociatorForms :
           LET w == AssociatorArgs(form, ROct(alg_in.x), ROct(alg_in.y),
                                   ROct(alg_in.z),
                                   Mul(ROct(alg_in.x), ROct(alg_in.y)))
               f == AssociatorArgs(form, FOct(alg_in.x), FOct(alg_in.y),
                                   FOct(alg_in.z),
                                   Octonion_mul(FOct(alg_in.x), FOct(alg_in.y)))
           IN  alg_out' = Some([op |-> "associator", form |-> form,
                                wrap |-> associator(w[1], w[2], w[3]),
                                field |-> Octonion_associator(f[1], f[2], f[3])])
    /\ UNCHANGED <<alg_in, grindVars, starkVars, benchVars, netVars, hzVars>>

\* H(x): the oracle of stark.rs's constraint (`wrap`) and the h_z_vals of
\* run_vdf_grind (`field`)
AlgHash ==
    /\ alg_out = None
    /\ alg_out' = Some([op |-> "hash", form |-> "x",
                        wrap |-> algebraic_hash_oracle(ROct(alg_in.x)),
                        field |-> h_z_vals(FOct(alg_in.x))])
    /\ UNCHANGED <<alg_in, grindVars, starkVars, benchVars, netVars, hzVars>>

\* The next states a row is checked with: the recurrence's, the recurrence's
\* moved by y, and y.
ConstraintForms == {"step", "step+y", "y"}

ConstraintNext(form, step, y) ==
    CASE form = "step"   -> step
      [] form = "step+y" -> Add(step, y)
      [] form = "y"      -> y

\* OctoStarkAir::transition_constraint on z_current = x, c = z and a next
\* state: `wrap` is its result, `field` the next state it was given
AlgConstraint ==
    /\ alg_out = None
    /\ \E form \in ConstraintForms :
           alg_out' =
               Some([op |-> "constraint", form |-> form,
                     wrap |-> transition_constraint(
                                  ROct(alg_in.x),
                                  ConstraintNext(form,
                                      vdf_step(ROct(alg_in.x), ROct(alg_in.z)),
                                      ROct(alg_in.y)),
                                  ROct(alg_in.z)),
                     field |-> ConstraintNext(form,
                                   vdf_step(ROct(alg_in.x), ROct(alg_in.z)),
                                   ROct(alg_in.y))])
    /\ UNCHANGED <<alg_in, grindVars, starkVars, benchVars, netVars, hzVars>>

(* ------------------------ vdf.rs: run_benchmark ------------------------ *)
\* Octonion::from_seed at the two seeds run_benchmark uses: the low 16 bits of
\* each of the eight u64 coordinates, taken into the model's machine word.
from_seed(seed) ==
    CASE seed = 12345 ->
             ROct(<<12345, 49414, 8192, 96, 35463, 53190, 61224, 41840>>)
      [] seed = 67890 ->
             ROct(<<2354, 27595, 16384, 530, 45964, 63181, 51233, 64224>>)

rotate(self) == [i \in 1..8 |-> self[(i % 8) + 1]]

\* The body of the three loops: Z' = Z^2 + C + [Z, C, Z_rot].
BenchStep(z, c) ==
    LET sq    == Mul(z, z)
        rot   == rotate(z)
        assoc == associator(z, c, rot)
    IN  Add(Add(sq, c), assoc)

BenchInit ==
    /\ bench_in \in [z_0 : {from_seed(67890)} \cup Seeds,
                     c : {from_seed(12345)} \cup Cs,
                     iterations : {2 * h : h \in 1..MaxHalf}]
    /\ bmain = [pc |-> "seq", z |-> bench_in.z_0, i |-> 0,
                z_mid |-> None, z_final |-> None]
    /\ bthread = [pc |-> "unspawned", z_local |-> None, i |-> 0, result |-> None]

\* run_benchmark is not running: its variables stay as parked here
BenchParked ==
    /\ bench_in = [z_0 |-> from_seed(67890), c |-> from_seed(12345), iterations |-> 0]
    /\ bmain = [pc |-> "idle", z |-> bench_in.z_0, i |-> 0,
                z_mid |-> None, z_final |-> None]
    /\ bthread = [pc |-> "unspawned", z_local |-> None, i |-> 0, result |-> None]

\* Test 2: one iteration of the sequential loop
BenchSeqIter ==
    /\ bmain.pc = "seq"
    /\ bmain.i < bench_in.iterations
    /\ bmain' = [bmain EXCEPT !.z = BenchStep(@, bench_in.c), !.i = @ + 1]
    /\ UNCHANGED <<bench_in, bthread, grindVars, starkVars, algVars, netVars, hzVars>>

\* Test 3: the sequential loop is over; thread::spawn, the closure taking
\* copies of z_0 and c
BenchSpawn ==
    /\ bmain.pc = "seq"
    /\ bmain.i = bench_in.iterations
    /\ bmain' = [bmain EXCEPT !.pc = "join", !.i = 0]
    /\ bthread' = [pc |-> "running", z_local |-> Some(bench_in.z_0), i |-> 0,
                   result |-> None]
    /\ UNCHANGED <<bench_in, grindVars, starkVars, algVars, netVars, hzVars>>

\* one iteration of the spawned thread's loop
ThreadIter ==
    /\ bthread.pc = "running"
    /\ bthread.i < bench_in.iterations \div 2
    /\ bthread' = [bthread EXCEPT !.z_local = Some(BenchStep(@[1], bench_in.c)),
                                  !.i = @ + 1]
    /\ UNCHANGED <<bench_in, bmain, grindVars, starkVars, algVars, netVars, hzVars>>

\* the spawned thread's closure returns z_local
ThreadExit ==
    /\ bthread.pc = "running"
    /\ bthread.i = bench_in.iterations \div 2
    /\ bthread' = [bthread EXCEPT !.pc = "finished", !.result = bthread.z_local]
    /\ UNCHANGED <<bench_in, bmain, grindVars, starkVars, algVars, netVars, hzVars>>

\* BenchJoin that does not wait: it takes the thread's z_local as it is.
BenchJoin_NoWait ==
    /\ bmain.pc = "join"
    /\ bthread.pc \in {"running", "finished"}
    /\ bmain' = [bmain EXCEPT !.pc = "second", !.i = 0,
                              !.z_mid = bthread.z_local,
                              !.z_final = bthread.z_local]
    /\ UNCHANGED <<bench_in, bthread, grindVars, starkVars, algVars, netVars, hzVars>>

\* handle1.join().unwrap(): blocks until the thread has finished, then
\* `let mut z_final = z_mid`
BenchJoin ==
    /\ bmain.pc = "join"
    /\ bthread.pc = "finished"
    /\ bmain' = [bmain EXCEPT !.pc = "second", !.i = 0,
                              !.z_mid = bthread.result,
                              !.z_final = bthread.result]
    /\ UNCHANGED <<bench_in, bthread, grindVars, starkVars, algVars, netVars, hzVars>>

\* one iteration of the second-half loop
BenchSecondIter ==
    /\ bmain.pc = "second"
    /\ bmain.i < bench_in.iterations \div 2
    /\ bmain' = [bmain EXCEPT !.z_final = Some(BenchStep(@[1], bench_in.c)),
                              !.i = @ + 1]
    /\ UNCHANGED <<bench_in, bthread, grindVars, starkVars, algVars, netVars, hzVars>>

\* the second-half loop is over
BenchSecondDone ==
    /\ bmain.pc = "second"
    /\ bmain.i = bench_in.iterations \div 2
    /\ bmain' = [bmain EXCEPT !.pc = "done"]
    /\ UNCHANGED <<bench_in, bthread, grindVars, starkVars, algVars, netVars, hzVars>>

(* ---------------------- gsh.rs: GSH256::hash_bytes --------------------- *)
\* A String is the sequence of its characters, a character its code point.
\* hash_bytes absorbs its whole input, chunk after chunk, into the sponge
\* state and returns the hexadecimal digest of the state. The model keeps of
\* it what its callers compare: a digest stands for the input absorbed, here
\* the input itself between two marks, so that digests are equal exactly when
\* the inputs are.
HashOpen == -1
HashClose == -2
hash_bytes(input) == <<HashOpen>> \o input \o <<HashClose>>

\* String::len is the length in bytes of the UTF-8 encoding.
utf8_len(ch) ==
    IF ch < 128 THEN 1 ELSE IF ch < 2048 THEN 2 ELSE IF ch < 65536 THEN 3 ELSE 4

RECURSIVE str_len(_)
str_len(s) == IF s = <<>> THEN 0 ELSE utf8_len(Head(s)) + str_len(Tail(s))

\* str::is_char_boundary, which the slice &s[0..n] asserts
is_char_boundary(s, n) == \E k \in 0..Len(s) : str_len(SubSeq(s, 1, k)) = n

\* The decimal digits `{}` prints for an unsigned integer.
RECURSIVE Display(_)
Display(n) ==
    IF n < 10 THEN <<48 + n>> ELSE Display(n \div 10) \o <<48 + (n % 10)>>

\* `{:?}` of an Octonion, "Octonion { coeffs: [a, b, c, d, e, f, g, h] }":
\* the fixed text before and after the list is one mark each, the
\* separator ", " is the comma.
DebugOpen == -3
DebugClose == -4
RECURSIVE DebugList(_, _)
DebugList(coeffs, k) ==
    IF k = 8 THEN Display(coeffs[k])
    ELSE Display(coeffs[k]) \o <<44>> \o DebugList(coeffs, k + 1)

Debug(o) == <<DebugOpen>> \o DebugList(o, 1) \o <<DebugClose>>

(* ------------------- horizon_net.rs: peers and sync -------------------- *)
\* "GENESIS_ROOT_HASH_0000", the genesis root of main.rs:145
GENESIS_ROOT ==
    <<71, 69, 78, 69, 83, 73, 83, 95, 82, 79, 79, 84, 95, 72, 65, 83, 72, 95,
      48, 48, 48, 48>>
\* "STATE_ROOT_A1" and "STATE_ROOT_B1", mined in main.rs:149 and 153
STATE_ROOT_A1 == <<83, 84, 65, 84, 69, 95, 82, 79, 79, 84, 95, 65, 49>>
STATE_ROOT_B1 == <<83, 84, 65, 84, 69, 95, 82, 79, 79, 84, 95, 66, 49>>
\* "STATE_ROOT_B2_0123456789": 24 characters of one byte each
STATE_ROOT_LONG ==
    <<83, 84, 65, 84, 69, 95, 82, 79, 79, 84, 95, 66, 50, 95, 48, 49, 50, 51,
      52, 53, 54, 55, 56, 57>>
\* "HORIZON_ROOT_B3etat" with an acute accent on the first e: 19 characters,
\* 20 bytes, the accented one being bytes 15 and 16
STATE_ROOT_ACCENT ==
    <<72, 79, 82, 73, 90, 79, 78, 95, 82, 79, 79, 84, 95, 66, 51, 233, 116,
      97, 116>>

LocalRoots == {STATE_ROOT_A1}
RemoteRoots == {STATE_ROOT_B1, STATE_ROOT_LONG, STATE_ROOT_ACCENT}
\* vdf_iterations is a u64: the difficulties mined are small, or half of the
\* machine word's range.
Difficulties == {1, Word \div 2}

\* BlockHeader::id: the hash of format!("{}{}{:?}{}", prev_hash,
\* horizon_root, vdf_proof, timestamp); vdf_iterations is not in it.
BlockHeader_id(self) ==
    hash_bytes(self.prev_hash \o self.horizon_root
                 \o Debug(self.vdf_proof) \o Display(self.timestamp))

\* "0000000000000000"
GenesisPrevHash == [k \in 1..16 |-> 48]

HorizonPeer_new(genesis_root) ==
    LET genesis == [prev_hash |-> GenesisPrevHash,
                    horizon_root |-> genesis_root,
                    vdf_proof |-> zero,
                    vdf_iterations |-> 0,
                    timestamp |-> 0]
    IN  [chain |-> <<genesis>>, current_horizon |-> genesis_root]

\* mine_next_block's loop `for _ in 0..100 { z = z * z; }`, n rounds of it
RECURSIVE mine_loop(_, _)
mine_loop(z, n) == IF n = 0 THEN z ELSE mine_loop(Mul(z, z), n - 1)

\* The proof every mined block carries: it depends on nothing but the fixed
\* seed. (tip.timestamp + 10 is far from the u64 range on any chain that
\* was mined; timestamps are plain integers here.)
mine_next_block(self, new_horizon_root, difficulty) ==
    LET tip == self.chain[Len(self.chain)]
        z == mine_loop(from_seed(12345), MineRounds)
        new_block == [prev_hash |-> BlockHeader_id(tip),
                      horizon_root |-> new_horizon_root,
                      vdf_proof |-> z,
                      vdf_iterations |-> difficulty,
                      timestamp |-> tip.timestamp + 10]
    IN  [chain |-> Append(self.chain, new_block),
         current_horizon |-> new_horizon_root]

\* sync, step 1: the loop `for i in 1..remote_chain.len()`; TRUE when it
\* runs to its end, FALSE when it returns at a broken link.
RECURSIVE sync_continuity(_, _)
sync_continuity(remote_chain, i) ==
    IF i >= Len(remote_chain) THEN TRUE
    ELSE LET prev == remote_chain[i]
             curr == remote_chain[i + 1]
         IN  IF curr.prev_hash # BlockHeader_id(prev) THEN FALSE
             ELSE sync_continuity(remote_chain, i + 1)

\* chain.iter().map(|b| b.vdf_iterations).sum() in u64. Iterator::sum adds
\* with `+`: where the build checks overflow (the default of a debug build)
\* the addition that overflows panics, where it does not (the default of a
\* release build) it wraps. None is the panic.
RECURSIVE sum_iterations(_, _, _, _)
sum_iterations(chain, k, total, overflow_checks) ==
    IF k > Len(chain) THEN Some(total)
    ELSE LET s == total + chain[k].vdf_iterations
         IN  IF s >= Word /\ overflow_checks THEN None
             ELSE sum_iterations(chain, k + 1, s % Word, overflow_checks)

SyncReturned(v, peer) == [ret |-> Some(v), panic |-> None, local |-> peer]
SyncPanicked(msg, peer) == [ret |-> None, panic |-> Some(msg), local |-> peer]

\* NetworkBootstrapper::sync: what it returns or how it panics, and the
\* local peer it leaves.
sync(local_, remote_chain, overflow_checks) ==
    IF ~sync_continuity(remote_chain, 1) THEN SyncReturned(FALSE, local_)
    ELSE
    LET local_weight == sum_iterations(local_.chain, 1, 0, overflow_checks)
        remote_weight == sum_iterations(remote_chain, 1, 0, overflow_checks)
    IN  IF local_weight = None \/ remote_weight = None
        THEN SyncPanicked("attempt to add with overflow", local_)
        ELSE IF remote_weight[1] > local_weight[1]
        THEN LET switched ==
                     [chain |-> remote_chain,
                      current_horizon |->
                          remote_chain[Len(remote_chain)].horizon_root]
             IN  IF /\ str_len(switched.current_horizon) > 16
                    /\ ~is_char_boundary(switched.current_horizon, 16)
                 THEN SyncPanicked("byte index 16 is not a char boundary",
                                   switched)
                 ELSE SyncReturned(TRUE, switched)
        ELSE SyncReturned(FALSE, local_)

NoNetOrigin == [altered |-> FALSE, tampered |-> FALSE, emptied |-> FALSE]

\* main.rs:148 and 152: node_a and node_b, each at genesis
NetInit ==
    /\ node_a = HorizonPeer_new(GENESIS_ROOT)
    /\ node_b = HorizonPeer_new(GENESIS_ROOT)
    /\ net_origin = NoNetOrigin
    /\ sync_out = None

\* no peer exists
NetParked ==
    /\ node_a = None
    /\ node_b = None
    /\ net_origin = NoNetOrigin
    /\ sync_out = None

NetUntouched == net_origin = NoNetOrigin

\* main.rs:149, node_a.mine_next_block
MineLocal ==
    /\ sync_out = None
    /\ NetUntouched
    /\ Len(node_a.chain) < MaxChain
    /\ \E root \in LocalRoots, difficulty \in Difficulties :
           node_a' = mine_next_block(node_a, root, difficulty)
    /\ UNCHANGED <<node_b, net_origin, sync_out,
                   grindVars, starkVars, algVars, benchVars, hzVars>>

\* main.rs:153-155, node_b.mine_next_block
MineRemote ==
    /\ sync_out = None
    /\ NetUntouched
    /\ Len(node_b.chain) < MaxChain
    /\ \E root \in RemoteRoots, difficulty \in Difficulties :
           node_b' = mine_next_block(node_b, root, difficulty)
    /\ UNCHANGED <<node_a, net_origin, sync_out,
                   grindVars, starkVars, algVars, benchVars, hzVars>>

\* The remote peer alters the time proof of one header of its chain, or the
\* number of iterations that header claims (the fields are public).
AlterHeader ==
    /\ sync_out = None
    /\ NetUntouched
    /\ \E k \in 1..Len(node_b.chain) :
          \/ \E n \in {0, 1, Word \div 2, Word - 1} :
                /\ n # node_b.chain[k].vdf_iterations
                /\ node_b' = [node_b EXCEPT !.chain[k].vdf_iterations = n]
          \/ \E z \in {zero, Basis(0), mine_loop(from_seed(12345), MineRounds)} :
                /\ z # node_b.chain[k].vdf_proof
                /\ node_b' = [node_b EXCEPT !.chain[k].vdf_proof = z]
    /\ net_origin' = [net_origin EXCEPT !.altered = TRUE]
    /\ UNCHANGED <<node_a, sync_out,
                   grindVars, starkVars, algVars, benchVars, hzVars>>

\* The remote peer rewrites a header's state root, timestamp or link.
TamperHeader ==
    /\ sync_out = None
    /\ NetUntouched
    /\ \E k \in 1..Len(node_b.chain) :
          \/ \E root \in RemoteRoots :
                /\ root # node_b.chain[k].horizon_root
                /\ node_b' = [node_b EXCEPT !.chain[k].horizon_root = root]
          \/ node_b' = [node_b EXCEPT !.chain[k].timestamp = @ + 1]
          \/ /\ k > 1
             /\ node_b' = [node_b EXCEPT !.chain[k].prev_hash = GenesisPrevHash]
    /\ net_origin' = [net_origin EXCEPT !.tampered = TRUE]
    /\ UNCHANGED <<node_a, sync_out,
                   grindVars, starkVars, algVars, benchVars, hzVars>>

\* The remote peer offers no header at all.
EmptyRemote ==
    /\ sync_out = None
    /\ NetUntouched
    /\ node_b' = [node_b EXCEPT !.chain = <<>>]
    /\ net_origin' = [net_origin EXCEPT !.emptied = TRUE]
    /\ UNCHANGED <<node_a, sync_out,
                   grindVars, starkVars, algVars, benchVars, hzVars>>

\* main.rs:163, NetworkBootstrapper::sync(&mut node_a, &node_b.chain), in a
\* build with or without overflow checks
Sync ==
    /\ sync_out = None
    /\ \E overflow_checks \in BOOLEAN :
          LET done == sync(node_a, node_b.chain, overflow_checks)
          IN  /\ node_a' = done.local
              /\ sync_out' = Some([ret |-> done.ret, panic |-> done.panic,
                                   before |-> node_a,
                                   overflow_checks |-> overflow_checks])
    /\ UNCHANGED <<node_b, net_origin,
                   grindVars, starkVars, algVars, benchVars, hzVars>>

(* ------------- horizon.rs: the accumulator and the validator ----------- *)
\* EMPTY_HASH, the literal of 64 zeros
EMPTY_HASH == [k \in 1..64 |-> 48]

\* u64::to_le_bytes
RECURSIVE le_bytes(_, _)
le_bytes(n, k) ==
    IF k = 0 THEN <<>> ELSE <<n % Byte>> \o le_bytes(n \div Byte, k - 1)

to_le_bytes(n) == le_bytes(n, U64Bytes)

\* Utxo::hash: the id, the amount and, of the owner's public key, the
\* diagonal entry t.alpha alone.
Utxo_hash(self) ==
    hash_bytes(self.id \o to_le_bytes(self.amount)
                 \o to_le_bytes(self.owner.t.alpha))

\* The UTXO minted in main.rs:95-99, a second one, and one that differs from
\* the first in the owner's key only, outside t.alpha. (Of a PublicKey the
\* model keeps t.alpha and t.beta.)
utxo_a == [id |-> [k \in 1..32 |-> 170], amount |-> 50,
           owner |-> [t |-> [alpha |-> 7, beta |-> 1]]]
utxo_b == [id |-> [k \in 1..32 |-> 187], amount |-> 20,
           owner |-> [t |-> [alpha |-> 9, beta |-> 2]]]
utxo_a_rekeyed == [utxo_a EXCEPT !.owner.t.beta = 3]

Minted == {utxo_a, utxo_b}
Spendable == {utxo_a, utxo_b, utxo_a_rekeyed}

\* Positions in the tree: the first two leaves, which are siblings, and the
\* last one.
Indices == {0, 1, 2 ^ TREE_DEPTH - 1}

RECURSIVE compute_empty_root(_)
compute_empty_root(height) ==
    IF height = 0 THEN EMPTY_HASH
    ELSE hash_bytes(compute_empty_root(height - 1)
                      \o compute_empty_root(height - 1))

HorizonAccumulator_new ==
    [nodes |-> <<>>, root |-> compute_empty_root(TREE_DEPTH)]

\* nodes is the HashMap from (level, index) to a hash
get_node(self, level, index) ==
    IF <<level, index>> \in DOMAIN self.nodes
    THEN self.nodes[<<level, index>>]
    ELSE compute_empty_root(level)

insert(nodes, key, value) ==
    [k \in DOMAIN nodes \cup {key} |-> IF k = key THEN value ELSE nodes[k]]

\* index ^ 1
flip_last_bit(index) == IF index % 2 = 0 THEN index + 1 ELSE index - 1

\* update_leaf's loop `for level in 0..TREE_DEPTH`, then self.root = curr_hash
RECURSIVE bubble_up(_, _, _, _)
bubble_up(self, level, curr_idx, curr_hash) ==
    IF level = TREE_DEPTH THEN [self EXCEPT !.root = curr_hash]
    ELSE LET sibling_hash == get_node(self, level, flip_last_bit(curr_idx))
             parent == IF curr_idx % 2 = 0
                       THEN hash_bytes(curr_hash \o sibling_hash)
                       ELSE hash_bytes(sibling_hash \o curr_hash)
         IN  bubble_up([self EXCEPT !.nodes =
                            insert(@, <<level + 1, curr_idx \div 2>>, parent)],
                       level + 1, curr_idx \div 2, parent)

update_leaf(self, index, hash) ==
    bubble_up([self EXCEPT !.nodes = insert(@, <<0, index>>, hash)],
              0, index, hash)

add_utxo(self, utxo, index) == update_leaf(self, index, Utxo_hash(utxo))

remove_utxo(self, index) == update_leaf(self, index, EMPTY_HASH)

RECURSIVE witness_siblings(_, _, _)
witness_siblings(self, level, curr_idx) ==
    IF level = TREE_DEPTH THEN <<>>
    ELSE <<get_node(self, level, flip_last_bit(curr_idx))>>
           \o witness_siblings(self, level + 1, curr_idx \div 2)

generate_witness(self, index) ==
    [siblings |-> witness_siblings(self, 0, index), index |-> index]

\* calculate_root's loop with the pair always hashed as (current, sibling)
RECURSIVE calculate_loop_left(_, _, _, _)
calculate_loop_left(curr_hash, curr_idx, siblings, k) ==
    IF k > Len(siblings) THEN curr_hash
    ELSE calculate_loop_left(hash_bytes(curr_hash \o siblings[k]),
                             curr_idx \div 2, siblings, k + 1)

calculate_root_left(leaf_hash, witness) ==
    calculate_loop_left(leaf_hash, witness.index, witness.siblings, 1)

\* calculate_root's loop `for sibling in &witness.siblings`
RECURSIVE calculate_loop(_, _, _, _)
calculate_loop(curr_hash, curr_idx, siblings, k) ==
    IF k > Len(siblings) THEN curr_hash
    ELSE LET parent == IF curr_idx % 2 = 0
                       THEN hash_bytes(curr_hash \o siblings[k])
                       ELSE hash_bytes(siblings[k] \o curr_hash)
         IN  calculate_loop(parent, curr_idx \div 2, siblings, k + 1)

calculate_root(leaf_hash, witness) ==
    calculate_loop(leaf_hash, witness.index, witness.siblings, 1)

\* process_transaction on a validator whose state_root is given. Of the
\* signature the transaction carries what JordanSchnorr::verify makes of it.
process_transaction(state_root, tx) ==
    IF ~tx.sig_valid THEN None
    ELSE LET calculated_root ==
                 calculate_root(Utxo_hash(tx.input_utxo), tx.witness)
         IN  IF calculated_root # state_root THEN None
             ELSE Some(calculate_root(EMPTY_HASH, tx.witness))

\* main.rs:87: the accumulator is created; no validator, witness or
\* transaction yet
HorizonInit ==
    /\ accumulator = HorizonAccumulator_new
    /\ validator = None
    /\ wit = None
    /\ tx_out = None

\* the ledger is not in use: there is no accumulator
HorizonParked ==
    /\ accumulator = None
    /\ validator = None
    /\ wit = None
    /\ tx_out = None

\* main.rs:104, accumulator.add_utxo
AddUtxo ==
    /\ validator = None
    /\ \E utxo \in Minted, index \in Indices :
           accumulator' = add_utxo(accumulator, utxo, index)
    /\ UNCHANGED <<validator, wit, tx_out,
                   grindVars, starkVars, algVars, benchVars, netVars>>

\* accumulator.remove_utxo
RemoveUtxo ==
    /\ validator = None
    /\ \E index \in Indices :
           accumulator' = remove_utxo(accumulator, index)
    /\ UNCHANGED <<validator, wit, tx_out,
                   grindVars, starkVars, algVars, benchVars, netVars>>

\* main.rs:117, accumulator.generate_witness: the user keeps the witness;
\* `leaves` and `root` record the tree it was made from
GenerateWitness ==
    /\ validator = None
    /\ wit = None
    /\ \E index \in Indices :
           wit' = Some([witness |-> generate_witness(accumulator, index),
                        leaves |-> [j \in 0..(2 ^ TREE_DEPTH - 1) |->
                                        get_node(accumulator, 0, j)],
                        root |-> accumulator.root])
    /\ UNCHANGED <<accumulator, validator, tx_out,
                   grindVars, starkVars, algVars, benchVars, netVars>>

\* main.rs:111, HorizonValidator::new(accumulator.root): from here on the
\* tree is the one the validator knows the root of
ValidatorOnline ==
    /\ validator = None
    /\ wit # None
    /\ validator' = Some(accumulator.root)
    /\ UNCHANGED <<accumulator, wit, tx_out,
                   grindVars, starkVars, algVars, benchVars, netVars>>

\* main.rs:123-133, validator.process_transaction(&tx)
ProcessTransaction ==
    /\ validator # None
    /\ tx_out = None
    /\ \E utxo \in Spendable, sig_valid \in BOOLEAN :
          LET tx == [input_utxo |-> utxo, witness |-> wit[1].witness,
                     sig_valid |-> sig_valid]
          IN  tx_out' = Some([tx |-> tx,
                              result |-> process_transaction(validator[1], tx)])
    /\ UNCHANGED <<accumulator, validator, wit,
                   grindVars, starkVars, algVars, benchVars, netVars>>

(* --------------------------- specifications ---------------------------- *)
Init ==
    StarkInit /\ GrindParked /\ AlgParked /\ BenchParked /\ NetParked /\ HorizonParked

Next ==
    \/ Evaluate \/ CorruptRow \/ ResizeTrace \/ Prove
    \/ Forge \/ TamperPublic \/ Verify

Spec == Init /\ [][Next]_vars

\* The evaluators alone: run_vdf_grind called twice, and evaluate_vdf.
InitEval ==
    GrindInit /\ StarkInit /\ AlgParked /\ BenchParked /\ NetParked /\ HorizonParked

NextEval == (\E r \in Runs : GrindIter(r) \/ GrindReturn(r)) \/ Evaluate

SpecEval == InitEval /\ [][NextEval]_vars

\* What an iteration or the return of call r does to the loop's control
\* state, the counter and the position; no other step of call r touches them.
GrindAdvance(r) ==
    /\ gpc[r] = "loop"
    /\ \/ /\ iter[r] < grind_in.t
          /\ iter' = [iter EXCEPT ![r] = @ + 1]
          /\ gpc' = gpc
       \/ /\ iter[r] = grind_in.t
          /\ gpc' = [gpc EXCEPT ![r] = "returned"]
          /\ iter' = iter

\* A call of run_vdf_grind that can take a step takes it: nothing in the loop
\* blocks or waits. The steps of call r are its GrindIter and GrindReturn
\* steps, which are the steps that advance its control state.
SpecEvalFair ==
    SpecEval /\ \A r \in Runs : WF_<<iter, gpc>>(GrindAdvance(r))

\* The octonion operations of both modules, on operands.
InitAlg ==
    AlgInit /\ StarkInit /\ GrindParked /\ BenchParked /\ NetParked /\ HorizonParked

NextAlg == AlgAdd \/ AlgMul \/ AlgAssociator \/ AlgHash \/ AlgConstraint

SpecAlg == InitAlg /\ [][NextAlg]_vars

\* run_benchmark: the sequential loop, then the two halves.
InitBench ==
    BenchInit /\ StarkInit /\ GrindParked /\ AlgParked /\ NetParked /\ HorizonParked

NextBench ==
    \/ BenchSeqIter \/ BenchSpawn \/ ThreadIter \/ ThreadExit
    \/ BenchJoin \/ BenchSecondIter \/ BenchSecondDone

SpecBench == InitBench /\ [][NextBench]_vars

\* Two peers mine, the remote chain may be rewritten, the local peer syncs.
InitNet ==
    NetInit /\ StarkInit /\ GrindParked /\ AlgParked /\ BenchParked /\ HorizonParked

NextNet ==
    \/ MineLocal \/ MineRemote \/ AlterHeader \/ TamperHeader
    \/ EmptyRemote \/ Sync

SpecNet == InitNet /\ [][NextNet]_vars

\* The ledger: UTXOs are minted and spent, a user takes a witness, a validator
\* comes online with the root and processes a transaction.
InitHorizon ==
    HorizonInit /\ StarkInit /\ GrindParked /\ AlgParked /\ BenchParked /\ NetParked

NextHorizon ==
    \/ AddUtxo \/ RemoveUtxo \/ GenerateWitness \/ ValidatorOnline
    \/ ProcessTransaction

SpecHorizon == InitHorizon /\ [][NextHorizon]_vars

(* ------------------------------- claims -------------------------------- *)
pub == pub_inputs[1]

\* prove was called on the evaluator's trace and public inputs as they were,
\* and its proof and the public inputs reached the verifier as they were
Honest ==
    origin.row = None /\ origin.pub = None /\ ~origin.forged /\ ~origin.resized

\* the steps of a trace whose transition constraint is not zero
BadSteps(trace_, c) ==
    {i \in 0..(Len(trace_) - 2) :
        ~is_zero(transition_constraint(trace_[i + 1], trace_[i + 2], c))}

\* the queries of a list whose transition constraint is not zero
BadQueries(queried_rows, c) ==
    {k \in 1..Len(queried_rows) :
        ~is_zero(transition_constraint(queried_rows[k].z_current,
                                       queried_rows[k].z_next, c))}

\* C1: completeness. For every z0, c, T >= 0 and lambda >= 0, prove on the
\* evaluator's trace and public inputs (z0, c, trace[T], T) returns a proof
\* (it does not abort), and verify accepts that proof.
C1_Completeness ==
    (Honest /\ prove_out # None) =>
        /\ prove_out[1].panic = None
        /\ proof # None
        /\ (verify_out # None => verify_out[1].ret = TRUE)

\* C2: for every z0, c and T >= 0 (T = 0 included) the trace run_vdf_grind
\* returns has exactly T + 1 entries and its entry 0 is z0.
C2_TraceShape ==
    \A r \in Runs :
        gpc[r] = "returned" =>
            /\ Len(history[r]) = grind_in.t + 1
            /\ history[r][1] = grind_in.seed

C2_Witness == gpc[1] = "returned" /\ grind_in.t = 0

\* C3: for every i in [0, T) the transition constraint on (trace[i],
\* trace[i+1], c) of the evaluator's trace is zero: run_vdf_grind's trace
\* satisfies the AIR's transition assertions, and evaluate_vdf's trace has a
\* zero transition_constraint at every step.
C3_TraceSatisfiesConstraint ==
    /\ \A r \in Runs :
           gpc[r] = "returned" =>
               \A i \in 0..(grind_in.t - 1) :
                   AirTransitionHolds(history[r][i + 1], history[r][i + 2], grind_in.c)
    /\ pc = "evaluated" =>
           \A i \in 0..(pub.t_iterations - 1) :
               is_zero(transition_constraint(trace[i + 1], trace[i + 2], pub.c))

\* a returned trace of at least two steps whose associator term is not zero
C3_Witness ==
    /\ gpc[1] = "returned"
    /\ grind_in.t >= 2
    /\ \E i \in 1..grind_in.t :
           Octonion_associator(history[1][i], grind_in.c, h_z_vals(history[1][i]))
               # [k \in 1..8 |-> 0]

C5_ProverSelfCheck ==
    prove_out # None =>
        /\ (Len(trace) = pub.t_iterations + 1 /\ BadSteps(trace, pub.c) # {}) =>
               /\ prove_out[1].ret = None
               /\ proof = None
               /\ pc = "aborted"
               /\ prove_out[1].panic =
                      Some([msg |-> "Trace invalid at step",
                            arg |-> Min(BadSteps(trace, pub.c))])
               /\ prove_out[1].sampled = 0
        /\ prove_out[1].sampled > 0 => prove_out[1].checked = pub.t_iterations

\* prove was called with lambda = 0 on a trace with two failing steps
C5_Witness ==
    /\ prove_out # None
    /\ origin.queries = Some(0)
    /\ Len(trace) = pub.t_iterations + 1
    /\ Cardinality(BadSteps(trace, pub.c)) >= 2

\* an honest trace in which exactly one interior row was replaced
InteriorRowCorrupted ==
    /\ origin.row # None
    /\ pub.t_iterations >= 2
    /\ 0 < origin.row[1] /\ origin.row[1] < pub.t_iterations

\* C6: soundness against one corrupted row. After exactly one interior row
\* trace[i], 0 < i < T, T >= 2, of an honest trace was replaced by a different
\* octonion, prove never yields a proof that verify accepts, for any lambda.
C6_CorruptedRowRejected ==
    InteriorRowCorrupted =>
        ~(proof # None /\ verify_out # None /\ verify_out[1].ret = TRUE)

\* prove was called, with lambda > 0, on a trace with a replaced interior row
C6_Witness ==
    /\ InteriorRowCorrupted
    /\ prove_out # None
    /\ origin.queries # None /\ origin.queries[1] > 0

\* C7: verifier boundary check. verify returns false whenever the public
\* inputs' z0 is not row 0 of the trace the proof was made from, or their zT
\* is not row T of it.
C7_BoundaryCheck ==
    (verify_out # None /\ ~origin.forged /\
     (pub.z_0 # trace[1] \/ pub.z_t # trace[Len(trace)])) =>
        verify_out[1].ret = FALSE

\* C8: no partial credit. verify returns false if some query of the proof
\* has a non-zero transition constraint under pub.c, whatever the other rows
\* and the low-degree flag; the queries are examined in list order and verify
\* stops at the first failing one, evaluating no later row.
C8_NoPartialCredit ==
    verify_out # None =>
        LET bad == BadQueries(proof[1].queried_rows, pub.c)
        IN  bad # {} =>
                /\ verify_out[1].ret = FALSE
                /\ verify_out[1].checked = Min(bad)
                /\ verify_out[1].log =
                       Some([msg |-> "AIR Transition Constraint violated at step",
                             arg |-> proof[1].queried_rows[Min(bad)].step])

\* verify ran on a proof with a true flag whose first query fails and whose
\* later query satisfies the constraint
C8_Witness ==
    /\ verify_out # None
    /\ proof[1].fri_proof_valid
    /\ Len(proof[1].queried_rows) >= 2
    /\ BadQueries(proof[1].queried_rows, pub.c) = {1}

\* C9: verify returns false for every proof whose low-degree flag is false,
\* also when every queried row satisfies the transition constraint or there
\* is no queried row.
C9_LowDegreeFlagRequired ==
    (verify_out # None /\ ~proof[1].fri_proof_valid) => verify_out[1].ret = FALSE

\* verify ran on a proof with a false flag and rows that all pass
C9_Witness ==
    /\ verify_out # None
    /\ ~proof[1].fri_proof_valid
    /\ Len(proof[1].queried_rows) >= 1
    /\ BadQueries(proof[1].queried_rows, pub.c) = {}

\* C10: a proof holding a query whose step is outside [0, T) is never
\* accepted by verify, even if the row satisfies the transition constraint.
C10_StepOutOfRangeRejected ==
    (verify_out # None /\
     \E k \in 1..Len(proof[1].queried_rows) :
         proof[1].queried_rows[k].step \notin 0..(pub.t_iterations - 1)) =>
        verify_out[1].ret = FALSE

\* C11: prove fails fast on a malformed trace. When the trace's length is not
\* T + 1, prove aborts on the length assertion: it has checked no step, has
\* sampled no query and returns no proof.
C11_FailFastOnLength ==
    (prove_out # None /\ Len(trace) # pub.t_iterations + 1) =>
        /\ prove_out[1].ret = None
        /\ proof = None
        /\ pc = "aborted"
        /\ prove_out[1].panic =
               Some([msg |-> "Trace length must match T + 1", arg |-> Len(trace)])
        /\ prove_out[1].checked = 0
        /\ prove_out[1].sampled = 0

\* prove was called, with lambda > 0 and T >= 1, on a trace with one row too
\* many, all of whose steps satisfy the constraint
C11_Witness ==
    /\ prove_out # None
    /\ origin.resized
    /\ pub.t_iterations >= 1
    /\ Len(trace) = pub.t_iterations + 2
    /\ BadSteps(trace, pub.c) = {}
    /\ origin.queries # None /\ origin.queries[1] > 0

\* C12: every TraceQuery emitted by prove is well formed. For T >= 1 and any
\* lambda, the proof prove returns holds exactly lambda queries, and each has
\* 0 <= step < T, z_current = trace[step] and z_next = trace[step + 1].
C12_QueriesWellFormed ==
    (prove_out # None /\ prove_out[1].ret # None /\ origin.pub = None
     /\ pub.t_iterations >= 1) =>
        LET rows == prove_out[1].ret[1].queried_rows
        IN  /\ Len(rows) = origin.queries[1]
            /\ \A k \in 1..Len(rows) :
                   /\ rows[k].step \in 0..(pub.t_iterations - 1)
                   /\ rows[k].z_current = trace[rows[k].step + 1]
                   /\ rows[k].z_next = trace[rows[k].step + 2]

\* prove returned a proof with at least two queries, over a trace of at least
\* two steps whose rows differ, one query being of a step other than 0
C12_Witness ==
    /\ prove_out # None /\ prove_out[1].ret # None
    /\ origin.pub = None
    /\ pub.t_iterations >= 2
    /\ origin.queries[1] >= 2
    /\ \E k \in 1..Len(prove_out[1].ret[1].queried_rows) :
           /\ prove_out[1].ret[1].queried_rows[k].step > 0
           /\ prove_out[1].ret[1].queried_rows[k].z_current
                  # prove_out[1].ret[1].queried_rows[k].z_next

\* C13: verifier work does not depend on T. verify evaluates the transition
\* constraint at most once per entry of proof.queried_rows, and on public
\* inputs that differ only in t_iterations it makes, for the same proof, the
\* same number of evaluations and returns the same result.
C13_VerifyIndependentOfT ==
    verify_out # None =>
        /\ verify_out[1].checked <= Len(proof[1].queried_rows)
        /\ \A t \in 0..(MaxT + 1) :
               LET other == verify(proof[1], [pub EXCEPT !.t_iterations = t])
               IN  /\ other.ret = verify_out[1].ret
                   /\ other.checked = verify_out[1].checked

\* verify ran on a proof of prove with several queries, all of which it
\* evaluated, for a T larger than their number
C13_Witness ==
    /\ verify_out # None
    /\ ~origin.forged
    /\ Len(proof[1].queried_rows) >= 2
    /\ verify_out[1].checked = Len(proof[1].queried_rows)
    /\ pub.t_iterations > Len(proof[1].queried_rows)

\* C14: verification failure is an ordinary boolean outcome. On every proof
\* and public inputs (no queried row, steps out of range, rows that do not
\* satisfy the constraint, T = 0) verify can run, returns true or false and
\* does not abort.
C14_VerifyReturnsBoolean ==
    /\ pc = "proved" =>
           /\ verify(proof[1], pub).panic = None
           /\ verify(proof[1], pub).ret \in BOOLEAN
    /\ verify_out # None =>
           /\ verify_out[1].panic = None
           /\ verify_out[1].ret \in BOOLEAN

\* verify ran for T = 0 on a proof not made by prove, one of whose queries
\* satisfies the constraint and another does not, all steps out of range
C14_Witness ==
    /\ verify_out # None
    /\ origin.forged
    /\ pub.t_iterations = 0
    /\ Len(proof[1].queried_rows) >= 2
    /\ BadQueries(proof[1].queried_rows, pub.c) = {2}

\* The sign table of the specification (4.2), row k giving r_k as a list of
\* terms <<sign, i, j>>, each standing for sign * a_i * b_j.
SpecSignTable ==
    << <<<<1, 0, 0>>, <<-1, 1, 1>>, <<-1, 2, 2>>, <<-1, 3, 3>>, <<-1, 4, 4>>, <<-1, 5, 5>>, <<-1, 6, 6>>, <<-1, 7, 7>>>>,
       <<<<1, 0, 1>>, <<1, 1, 0>>, <<1, 2, 3>>, <<-1, 3, 2>>, <<1, 4, 5>>, <<-1, 5, 4>>, <<-1, 6, 7>>, <<1, 7, 6>>>>,
       <<<<1, 0, 2>>, <<-1, 1, 3>>, <<1, 2, 0>>, <<1, 3, 1>>, <<1, 4, 6>>, <<1, 5, 7>>, <<-1, 6, 4>>, <<-1, 7, 5>>>>,
       <<<<1, 0, 3>>, <<1, 1, 2>>, <<-1, 2, 1>>, <<1, 3, 0>>, <<1, 4, 7>>, <<-1, 5, 6>>, <<1, 6, 5>>, <<-1, 7, 4>>>>,
       <<<<1, 0, 4>>, <<-1, 1, 5>>, <<-1, 2, 6>>, <<-1, 3, 7>>, <<1, 4, 0>>, <<1, 5, 1>>, <<1, 6, 2>>, <<1, 7, 3>>>>,
       <<<<1, 0, 5>>, <<1, 1, 4>>, <<-1, 2, 7>>, <<1, 3, 6>>, <<-1, 4, 1>>, <<1, 5, 0>>, <<-1, 6, 3>>, <<1, 7, 2>>>>,
       <<<<1, 0, 6>>, <<1, 1, 7>>, <<1, 2, 4>>, <<-1, 3, 5>>, <<-1, 4, 2>>, <<1, 5, 3>>, <<1, 6, 0>>, <<-1, 7, 1>>>>,
       <<<<1, 0, 7>>, <<-1, 1, 6>>, <<1, 2, 5>>, <<1, 3, 4>>, <<-1, 4, 3>>, <<-1, 5, 2>>, <<1, 6, 1>>, <<1, 7, 0>>>>>>

RECURSIVE SpecRowSum(_, _, _, _)
\* the integer value of the first n terms of a row on integer coordinates
SpecRowSum(row, a, b, n) ==
    IF n = 0 THEN 0
    ELSE SpecRowSum(row, a, b, n - 1)
             + row[n][1] * a[row[n][2] + 1] * b[row[n][3] + 1]

\* a * b by the specification's table, over the integers
SpecProduct(a, b) == [k \in 1..8 |-> SpecRowSum(SpecSignTable[k], a, b, 8)]

\* C15: octonion multiplication computes exactly the eight coordinates
\* r0..r7 of the specification's sign table, with the arithmetic done in the
\* scalar ring: the wrapping implementation of vdf.rs and the field
\* implementation of stark_vdf.rs both agree with the table, hence with each
\* other on the same integer operands.
C15_MulMatchesTable ==
    (alg_out # None /\ alg_out[1].op = "mul") =>
        /\ alg_out[1].wrap =
               [k \in 1..8 |-> SpecProduct(alg_in.x, alg_in.y)[k] % Word]
        /\ alg_out[1].field =
               [k \in 1..8 |-> SpecProduct(alg_in.x, alg_in.y)[k] % P]

\* two octonions with several non-zero coordinates were multiplied, and the
\* arithmetic wrapped in both rings
C15_Witness ==
    /\ alg_out # None /\ alg_out[1].op = "mul"
    /\ alg_in.x = <<3, 1, 4, 1, 5, 9, 2, 6>>
    /\ alg_in.y = <<1, 2, 0, 3, 1, 0, 2, 5>>
    /\ \E k \in 1..8 : SpecProduct(alg_in.x, alg_in.y)[k] < 0
    /\ \E k \in 1..8 : SpecProduct(alg_in.x, alg_in.y)[k] >= P


\* C16: the multiplication is non-commutative and non-associative. There are
\* octonions a, b with a * b # b * a, namely e_1 and e_2, and octonions x, y,
\* z with associator(x, y, z) # 0, namely e_1, e_2 and e_4, in both modules.
C16_NonCommutativeNonAssociative ==
    (alg_out # None /\ alg_in.x = Basis(1) /\ alg_in.y = Basis(2)) =>
        /\ alg_out[1].op = "mul" =>
               /\ alg_out[1].wrap # Mul(ROct(alg_in.y), ROct(alg_in.x))
               /\ alg_out[1].field # Octonion_mul(FOct(alg_in.y), FOct(alg_in.x))
        /\ (alg_out[1].op = "associator" /\ alg_out[1].form = "x,y,z"
            /\ alg_in.z = Basis(4)) =>
               /\ ~is_zero(alg_out[1].wrap)
               /\ alg_out[1].field # [k \in 1..8 |-> 0]

\* the associator of e_1, e_2, e_4 was computed
C16_Witness ==
    /\ alg_out # None
    /\ alg_in = [x |-> Basis(1), y |-> Basis(2), z |-> Basis(4)]
    /\ alg_out[1].op = "associator" /\ alg_out[1].form = "x,y,z"

\* C17: the associator vanishes on two-generated subalgebras. For all
\* octonions x, y: associator(x, x, y), associator(x, y, y),
\* associator(x, y, x) and associator(x, y, x * y) are the zero octonion, in
\* both modules.
C17_AssociatorVanishes ==
    (alg_out # None /\ alg_out[1].op = "associator"
     /\ alg_out[1].form \in {"x,x,y", "x,y,y", "x,y,x", "x,y,xy"}) =>
        /\ is_zero(alg_out[1].wrap)
        /\ alg_out[1].field = [k \in 1..8 |-> 0]

\* associator(x, y, x * y) was computed for two octonions that do not
\* commute, neither of which is a unit
C17_Witness ==
    /\ alg_out # None /\ alg_out[1].op = "associator"
    /\ alg_out[1].form = "x,y,xy"
    /\ alg_in.x = <<3, 1, 4, 1, 5, 9, 2, 6>>
    /\ alg_in.y = <<1, 2, 0, 3, 1, 0, 2, 5>>
    /\ Mul(ROct(alg_in.x), ROct(alg_in.y)) # Mul(ROct(alg_in.y), ROct(alg_in.x))


RECURSIVE FieldSumTo(_, _)
\* y_1 + ... + y_n in the field
FieldSumTo(y, n) == IF n < 1 THEN 0 ELSE FAdd(FieldSumTo(y, n - 1), y[n])

\* x^7 in the field, by repeated multiplication
FieldPow7(x) == FMul(FMul(FMul(FMul(FMul(FMul(x, x), x), x), x), x), x)

\* C18: the hash oracle H used in the evaluator's step computes, for every
\* state x, out_i = x_i^7 + (the sum over j of x_j^7) + k_i with fixed round
\* constants k_i. The constants being fixed, k_i is what H gives at
\* coordinate i on the zero state, where every x_j^7 is 0.
C18_OracleIsPowerSumConstant ==
    (alg_out # None /\ alg_out[1].op = "hash") =>
        LET x == FOct(alg_in.x)
            y == [i \in 1..8 |-> FieldPow7(x[i])]
            s == FieldSumTo(y, 8)
            k == h_z_vals([i \in 1..8 |-> 0])
        IN  alg_out[1].field = [i \in 1..8 |-> FAdd(FAdd(y[i], s), k[i])]


\* run_vdf_grind was called on the repository's own inputs: the test's
\* (stark_vdf.rs:281-283) or the end-to-end demonstration's (208-218)
RepoInputs ==
    \/ /\ grind_in.seed = FOct(<<1, 1, 1, 1, 1, 1, 1, 1>>)
       /\ grind_in.c = FOct(<<42, 42, 42, 42, 42, 42, 42, 42>>)
    \/ /\ grind_in.seed = FOct(<<7, 7, 7, 7, 7, 7, 7, 7>>)
       /\ grind_in.c = FOct(<<1337, 1337, 1337, 1337, 1337, 1337, 1337, 1337>>)

\* the term associator(Z_n, C, H(Z_n)) of the step taken from state z
AssociatorTerm(z) == Octonion_associator(z, grind_in.c, h_z_vals(z))

\* C19: no two-generator trap. Along the trace run_vdf_grind computes for the
\* repository's own inputs, associator(Z_n, C, H(Z_n)) is non-zero at every
\* step n in [0, T): the recurrence never degenerates to Z' = Z * Z + C.
C19_NoTwoGeneratorTrap ==
    RepoInputs =>
        \A r \in Runs : \A n \in 1..iter[r] :
            AssociatorTerm(history[r][n]) # [k \in 1..8 |-> 0]


\* C20: sequential dependency under a two-thread split. In the parallel-attack
\* run the loop for the second half of the iterations starts only after the
\* thread computing the first half has terminated and handed over its final
\* state, which is where that loop starts from; and the state reached after
\* both halves is the state reached by the single sequential loop of all the
\* iterations from the same z_0 and c.
C20_SecondHalfWaitsForFirst ==
    /\ bmain.pc \in {"second", "done"} =>
           /\ bthread.pc = "finished"
           /\ bthread.i = bench_in.iterations \div 2
           /\ bmain.z_mid = bthread.result
           /\ bmain.z_mid = bthread.z_local
    /\ bmain.pc = "second" /\ bmain.i = 0 => bmain.z_final = bmain.z_mid
    /\ bmain.pc = "done" => bmain.z_final = Some(bmain.z)

\* both halves are done, each of two iterations or more, and the state moved
\* in each half
C20_Witness ==
    /\ bmain.pc = "done"
    /\ bench_in.iterations >= 4
    /\ bmain.z_mid # Some(bench_in.z_0)
    /\ bmain.z_final # bmain.z_mid
    /\ bench_in.z_0 = from_seed(67890) /\ bench_in.c = from_seed(12345)


RECURSIVE GrindIterate(_, _, _)
\* the one-step recurrence of run_vdf_grind applied n times to z
GrindIterate(z, c, n) ==
    IF n = 0 THEN z ELSE GrindNext(GrindIterate(z, c, n - 1), c)

\* what holds of a call of run_vdf_grind at every moment and at its return
C21_Stepwise ==
    \A r \in Runs :
        /\ iter[r] <= grind_in.t
        /\ current[r] = GrindIterate(grind_in.seed, grind_in.c, iter[r])
        /\ gpc[r] = "returned" =>
               /\ iter[r] = grind_in.t
               /\ Len(history[r]) = grind_in.t + 1
               /\ current[r] = history[r][grind_in.t + 1]
               /\ history[r][grind_in.t + 1]
                      = GrindIterate(grind_in.seed, grind_in.c, grind_in.t)
               /\ \A i \in 0..(grind_in.t - 1) :
                      history[r][i + 2] = GrindNext(history[r][i + 1], grind_in.c)

\* C21: the evaluator terminates for every T >= 0 after exactly T
\* applications of the one-step recurrence, and the final state it reports is
\* the last trace entry: trace[T] is the recurrence applied T times to z0,
\* and trace[i+1] is computed from trace[i] (and c) only.
C21_TerminatesAfterTSteps ==
    /\ []C21_Stepwise
    /\ <>(\A r \in Runs : gpc[r] = "returned")

\* a call has returned after three iterations or more, all of which moved
\* the state
C21_Witness ==
    /\ gpc[1] = "returned"
    /\ grind_in.t >= 3
    /\ \A i \in 1..grind_in.t : history[1][i] # history[1][i + 1]


\* run_vdf_grind was called as test_vdf_sequentiality calls it
\* (stark_vdf.rs:281-283): seed [1; 8], c [42; 8], t = 1
TestInputs ==
    /\ grind_in.seed = FOct(<<1, 1, 1, 1, 1, 1, 1, 1>>)
    /\ grind_in.c = FOct(<<42, 42, 42, 42, 42, 42, 42, 42>>)
    /\ grind_in.t = 1

\* C22: the step map is not the identity on the first step. For the test's
\* inputs (seed with all coordinates 1, c with all coordinates 42, T = 1) the
\* evaluator's trace[1] differs from the seed.
C22_FirstStepMoves ==
    \A r \in Runs :
        (TestInputs /\ gpc[r] = "returned") => history[r][2] # grind_in.seed

\* the call of the test has returned its trace of two entries
C22_Witness ==
    /\ TestInputs
    /\ gpc[1] = "returned"
    /\ Len(history[1]) = 2


\* C23: transition_constraint(z_current, z_next, c) is the zero octonion if
\* and only if z_next is the one-step recurrence applied to z_current with
\* c: for every z_current and c exactly one z_next passes the check.
C23_ConstraintZeroIffStep ==
    (alg_out # None /\ alg_out[1].op = "constraint") =>
        (is_zero(alg_out[1].wrap)
             <=> alg_out[1].field = vdf_step(ROct(alg_in.x), ROct(alg_in.z)))

\* the constraint was evaluated on a next state that differs from the
\* recurrence's by 1 in one coordinate only, and is not zero
C23_Witness ==
    /\ alg_out # None /\ alg_out[1].op = "constraint"
    /\ alg_out[1].form = "step+y"
    /\ alg_in.x = <<3, 1, 4, 1, 5, 9, 2, 6>>
    /\ \E i \in 0..7 : alg_in.y = Basis(i)
    /\ ~is_zero(alg_out[1].wrap)


\* the steps of a list of queries, in order
StepsOf(queried_rows) == [k \in 1..Len(queried_rows) |-> queried_rows[k].step]

\* the steps prove samples, with lambda queries, on the evaluator's trace of
\* T steps from z_0 with c
HonestSteps(z_0, c, t, lambda) ==
    StepsOf(prove(evaluate_vdf(z_0, c, t).trace,
                  [z_0 |-> z_0, c |-> c,
                   z_t |-> evaluate_vdf(z_0, c, t).final_state,
                   t_iterations |-> t],
                  lambda).ret[1].queried_rows)

\* C24: the sampled query indices are a deterministic function of T and
\* lambda only. prove samples the same sequence of steps on any two valid
\* traces of the same length, whatever z0, c and the rows are, and the
\* sequence for lambda1 < lambda2 is a prefix of the sequence for lambda2.
C24_IndicesDependOnTAndLambdaOnly ==
    (prove_out # None /\ prove_out[1].ret # None /\ origin.pub = None
     /\ pub.t_iterations >= 1) =>
        LET steps == StepsOf(prove_out[1].ret[1].queried_rows)
        IN  /\ \A z_0 \in Seeds, c \in Cs :
                   HonestSteps(z_0, c, pub.t_iterations, Len(steps)) = steps
            /\ \A lambda1 \in 0..(Len(steps) - 1) :
                   HonestSteps(pub.z_0, pub.c, pub.t_iterations, lambda1)
                       = SubSeq(steps, 1, lambda1)

\* prove returned two queries or more, of different steps, for an evaluation
\* whose rows differ from those of another z0 and c
C24_Witness ==
    /\ prove_out # None /\ prove_out[1].ret # None
    /\ origin.pub = None
    /\ pub.t_iterations >= 2
    /\ Len(prove_out[1].ret[1].queried_rows) >= 2
    /\ prove_out[1].ret[1].queried_rows[1].step
           # prove_out[1].ret[1].queried_rows[2].step
    /\ \E z_0 \in Seeds, c \in Cs :
           evaluate_vdf(z_0, c, pub.t_iterations).trace # trace


\* a proof with another commitment root, no authentication paths and every
\* step moved by `shift`
Redressed(proof_, shift) ==
    [proof_ EXCEPT
        !.trace_merkle_root = Filled(0, 32),
        !.queried_rows =
            [k \in 1..Len(proof_.queried_rows) |->
                [proof_.queried_rows[k] EXCEPT !.step = @ + shift,
                                               !.merkle_auth_path = <<>>]]]

\* C25: verify(proof, pub) returns true exactly when proof.fri_proof_valid is
\* true and every entry of proof.queried_rows has a zero transition
\* constraint under pub.c; the result is unaffected by trace_merkle_root, by
\* the merkle_auth_path and the step of a query, and by pub.z_0, pub.z_t and
\* pub.t_iterations, so a proof with no queried row and a true flag is
\* accepted.
C25_VerifyExactly ==
    verify_out # None =>
        /\ verify_out[1].ret =
               (proof[1].fri_proof_valid
                /\ BadQueries(proof[1].queried_rows, pub.c) = {})
        /\ \A shift \in {0, MaxT + 1} :
               verify(Redressed(proof[1], shift), pub).ret = verify_out[1].ret
        /\ \A v \in OctSamples :
               verify(proof[1],
                      [pub EXCEPT !.z_0 = v, !.z_t = v,
                                  !.t_iterations = IF v = zero THEN 0
                                                   ELSE MaxT + 1]).ret
                   = verify_out[1].ret

\* verify accepted a proof with no queried row and a true flag, for T >= 1
C25_Witness ==
    /\ verify_out # None
    /\ proof[1].queried_rows = <<>>
    /\ proof[1].fri_proof_valid
    /\ pub.t_iterations >= 1
    /\ verify_out[1].ret = TRUE


\* C26: the nonlinear layer is a permutation. Over the field, whose modulus P
\* has 7 coprime to P - 1, the per-coordinate map computed as x2 = x * x,
\* x4 = x2 * x2, result = x4 * x2 * x is x^7 and a bijection of [0, P): two
\* states that differ in a coordinate have outputs that differ in that
\* coordinate.
C26_NonlinearLayerPermutes ==
    (alg_out # None /\ alg_out[1].op = "hash") =>
        /\ alg_out[1].field = [i \in 1..8 |-> FieldPow7(FOct(alg_in.x)[i])]
        /\ \A i \in 1..8 : \A v \in 0..(P - 1) :
               v # FOct(alg_in.x)[i] =>
                   h_z_vals([FOct(alg_in.x) EXCEPT ![i] = v])[i]
                       # alg_out[1].field[i]
        /\ {h_z_vals([i \in 1..8 |-> v])[1] : v \in 0..(P - 1)} = 0..(P - 1)

\* the layer was applied to a state with coordinates other than 0 and 1
C26_Witness ==
    /\ alg_out # None /\ alg_out[1].op = "hash"
    /\ alg_in.x = <<3, 1, 4, 1, 5, 9, 2, 6>>
    /\ alg_out[1].field # FOct(alg_in.x)


\* (x * y) * z - x * (y * z) by the specification's table, over the integers
SpecAssociator(x, y, z) ==
    [k \in 1..8 |-> SpecProduct(SpecProduct(x, y), z)[k]
                        - SpecProduct(x, SpecProduct(y, z))[k]]

\* C27: octonion arithmetic over the wrapping ring is total. For all inputs,
\* addition, multiplication and the associator of vdf.rs return a value, each
\* coordinate of which is the integer value of the corresponding formula
\* reduced modulo the word's range, and so lies in that range.
C27_WrappingArithmeticTotal ==
    (alg_out # None /\ alg_out[1].op \in {"add", "mul", "associator"}) =>
        LET x == ROct(alg_in.x)
            y == ROct(alg_in.y)
            z == ROct(alg_in.z)
        IN  /\ \A k \in 1..8 : alg_out[1].wrap[k] \in 0..(Word - 1)
            /\ alg_out[1].op = "add" =>
                   alg_out[1].wrap = [k \in 1..8 |-> (x[k] + y[k]) % Word]
            /\ alg_out[1].op = "mul" =>
                   alg_out[1].wrap = [k \in 1..8 |-> SpecProduct(x, y)[k] % Word]
            /\ (alg_out[1].op = "associator" /\ alg_out[1].form = "x,y,z") =>
                   alg_out[1].wrap =
                       [k \in 1..8 |-> SpecAssociator(x, y, z)[k] % Word]

\* two octonions were added whose coordinate sums pass the end of the word's
\* range
C27_Witness ==
    /\ alg_out # None /\ alg_out[1].op = "add"
    /\ \E k \in 1..8 : ROct(alg_in.x)[k] + ROct(alg_in.y)[k] >= Word
    /\ \E k \in 1..8 : ROct(alg_in.x)[k] + ROct(alg_in.y)[k] < Word


\* C28: sync adopts the remote chain only after verifying the time proof of
\* every remote header against the iterations the header claims: a remote
\* chain in which some header's vdf_iterations or vdf_proof was altered is
\* never adopted (sync does not return true on it, and the local peer keeps
\* its chain and its horizon).
C28_AlteredChainNeverAdopted ==
    (sync_out # None /\ net_origin.altered) =>
        /\ sync_out[1].ret # Some(TRUE)
        /\ node_a = sync_out[1].before

\* Every header's prev_hash is the id of the header before it.
Linked(chain) ==
    \A i \in 2..Len(chain) : chain[i].prev_hash = BlockHeader_id(chain[i - 1])

\* The sum of the vdf_iterations of a chain, as a number.
RECURSIVE Weight(_)
Weight(chain) ==
    IF chain = <<>> THEN 0
    ELSE chain[1].vdf_iterations + Weight(Tail(chain))

\* C29: fork choice. For any local peer and any remote chain, the empty one
\* included, sync returns true, with local.chain replaced by the remote chain
\* and local.current_horizon by the last remote header's horizon_root,
\* exactly when the remote chain is linked and the sum of its vdf_iterations
\* is strictly greater than the local sum; in every other case it returns
\* false, never aborts, and leaves the local peer as it was.
C29_ForkChoice ==
    sync_out # None =>
        LET before == sync_out[1].before
            remote_chain == node_b.chain
        IN  IF Linked(remote_chain) /\ Weight(remote_chain) > Weight(before.chain)
            THEN /\ sync_out[1].ret = Some(TRUE)
                 /\ node_a.chain = remote_chain
                 /\ node_a.current_horizon =
                        remote_chain[Len(remote_chain)].horizon_root
            ELSE /\ sync_out[1].ret = Some(FALSE)
                 /\ sync_out[1].panic = None
                 /\ node_a = before


\* The leaves of the accumulator's tree as they are now.
LeavesNow == [j \in 0..(2 ^ TREE_DEPTH - 1) |-> get_node(accumulator, 0, j)]

\* No leaf other than the witness's own differs from when the witness was made.
RestUnchanged ==
    \A j \in 0..(2 ^ TREE_DEPTH - 1) :
        j # wit[1].witness.index => LeavesNow[j] = wit[1].leaves[j]

\* C30: stateless validation agrees with the accumulator. A validator that
\* holds accumulator.root processes a transaction spending a UTXO with a
\* witness made by generate_witness(i). When the UTXO's hash is the leaf now
\* stored at i and no other leaf has changed since the witness was made, the
\* validator recomputes accumulator.root from the hash and the witness and,
\* the signature being valid, returns the root the accumulator has after
\* remove_utxo(i). When the signature is invalid, the hash is not the leaf
\* stored at i, or another leaf has changed since, it returns None. (A later
\* change of the leaf at i itself leaves the witness good.)
C30_ValidatorAgreesWithAccumulator ==
    tx_out # None =>
        LET tx == tx_out[1].tx
            i == tx.witness.index
            leaf == Utxo_hash(tx.input_utxo)
            good == leaf = LeavesNow[i] /\ RestUnchanged
        IN  /\ validator = Some(accumulator.root)
            /\ good <=> calculate_root(leaf, tx.witness) = accumulator.root
            /\ (good /\ tx.sig_valid) =>
                   tx_out[1].result = Some(remove_utxo(accumulator, i).root)
            /\ ~(good /\ tx.sig_valid) => tx_out[1].result = None

\* A UTXO stored at an odd index, next to another stored UTXO, is spent with
\* a witness made before the last change of the tree.
C30_Witness ==
    /\ tx_out # None
    /\ tx_out[1].result # None
    /\ tx_out[1].tx.witness.index = 1
    /\ LeavesNow[0] # EMPTY_HASH
    /\ wit[1].root # accumulator.root

\* C30 as stated: a witness generated before a later change of the tree's
\* root is rejected with None.
C30_StaleWitnessRejected ==
    (tx_out # None /\ wit[1].root # accumulator.root) =>
        tx_out[1].result = None

=============================================================================
